---- MODULE Spec2Model ----
(***************************************************************************)
(* Lab Documenter: the host collection layer.                              *)
(*                                                                         *)
(*   modules/system.py     SystemCollector (connect, run_command,          *)
(*                         collect_system_info and its sub-collectors)     *)
(*   modules/services.py   ServiceDatabase (the service catalog)           *)
(*   modules/inventory.py  InventoryManager (collect_all_data, the worker  *)
(*                         pool and the merge of the workers' records)     *)
(*                                                                         *)
(* Python values are modelled as follows.  A dict is a function whose      *)
(* DOMAIN is the set of its keys.  None is the string "None", the empty    *)
(* string is "".  The text a remote command prints is abstracted to the    *)
(* features its parser reads.                                              *)
(***************************************************************************)
EXTENDS Integers, Sequences, FiniteSets, TLC

(***************************************************************************)
(* Bounds of the model.                                                    *)
(***************************************************************************)
\* substrings of the exception message that connect() looks for, at most
MaxKeywords == 2
\* commands of one collection whose result differs from the nominal host's
MaxOdd == 2
\* hosts handed to collect_all_data in SpecInventory
NumHosts == 3

(***************************************************************************)
(* Python dict helpers.                                                    *)
(***************************************************************************)
EmptyDict == <<>>

Has(d, k) == k \in DOMAIN d

Put(d, k, v) == [x \in (DOMAIN d) \cup {k} |-> IF x = k THEN v ELSE d[x]]

Del(d, k) == [x \in (DOMAIN d) \ {k} |-> d[x]]

\* bool(x) of a command result: None and '' are falsy
Truthy(r) == r \notin {"None", ""}

(***************************************************************************)
(* SystemCollector.connect: the classification of the exception message.   *)
(* The message is lowercased and searched for substrings, in this order.   *)
(***************************************************************************)
Keywords ==
    { "timeout", "timed out", "connection refused", "no route to host",
      "host unreachable", "authentication failed",
      "no authentication methods available", "q must be exactly",
      "permission denied", "name resolution", "nodename nor servname",
      "network is unreachable", "unable to connect to port 22",
      "connection reset", "connection aborted", "errno none" }

\* normalized_error[:80] + "..."
TruncateAt == 80

\* self.ssh_timeout, the default of __init__
ssh_timeout == 5

\* lengths of the message after the two re.sub normalisations
MsgLens == {0, 1, TruncateAt, TruncateAt + 1}

\* an exception message: the substrings it contains and its normalized length
Messages ==
    { [kw |-> k, len |-> n] : k \in {s \in SUBSET Keywords : Cardinality(s) <= MaxKeywords},
                              n \in MsgLens }

NoReason == [text |-> "None", detail |-> 0]

Reason(t) == [text |-> t, detail |-> 0]

\* the final else of connect(): no fallback, the reason stays None
FailureReasonNoFallback(msg) ==
    IF msg.kw # {} THEN Reason("Connection refused (SSH service may not be running)")
    ELSE NoReason

\* the message is kept whole
TruncateNone(n) == n

\* lines 72-73: a normalized message longer than 80 is cut and "..." added
Truncate(n) == IF n > TruncateAt THEN TruncateAt + 3 ELSE n

\* the except branch of connect(): error_str -> connection_failure_reason
FailureReason(msg) ==
    IF "timeout" \in msg.kw \/ "timed out" \in msg.kw
      THEN [text |-> "Connection timeout (waited Ns)", detail |-> ssh_timeout]
    ELSE IF "connection refused" \in msg.kw
      THEN Reason("Connection refused (SSH service may not be running)")
    ELSE IF "no route to host" \in msg.kw
      THEN Reason("No route to host (network unreachable)")
    ELSE IF "host unreachable" \in msg.kw
      THEN Reason("Host unreachable")
    ELSE IF "authentication failed" \in msg.kw
      THEN Reason("Authentication failed (check SSH key/credentials)")
    ELSE IF "no authentication methods available" \in msg.kw
      THEN Reason("No authentication methods available")
    ELSE IF "q must be exactly" \in msg.kw
      THEN Reason("SSH key compatibility issue (DSA key format)")
    ELSE IF "permission denied" \in msg.kw
      THEN Reason("Permission denied (check SSH key permissions)")
    ELSE IF "name resolution" \in msg.kw \/ "nodename nor servname" \in msg.kw
      THEN Reason("DNS resolution failed")
    ELSE IF "network is unreachable" \in msg.kw
      THEN Reason("Network unreachable")
    ELSE IF "unable to connect to port 22" \in msg.kw
      THEN Reason("Unable to connect to SSH port 22")
    ELSE IF "connection reset" \in msg.kw \/ "connection aborted" \in msg.kw
      THEN Reason("Connection reset by remote host")
    ELSE IF "errno none" \in msg.kw
      THEN Reason("Connection failed (port may be filtered or closed)")
    ELSE [text |-> "Unknown error: ", detail |-> Truncate(msg.len)]

\* the transport connect() opens: paramiko with key_filename
ConnectTransportPassword == "ssh_password"

ConnectTransport == "ssh_key"

(***************************************************************************)
(* Names and texts.  A name is a string; Chars gives its characters, which *)
(* the catalog's prefix, suffix and substring tests read.                  *)
(***************************************************************************)
Chars(n) ==
    CASE n = "ssh"          -> <<"s","s","h">>
      [] n = "sshd"         -> <<"s","s","h","d">>
      [] n = "nginx"        -> <<"n","g","i","n","x">>
      [] n = "cron"         -> <<"c","r","o","n">>
      [] n = "unknown"      -> <<"u","n","k","n","o","w","n">>
      [] n = "ssh.service"  -> <<"s","s","h",".","s","e","r","v","i","c","e">>
      [] n = "cron.service" -> <<"c","r","o","n",".","s","e","r","v","i","c","e">>

\* str.startswith
StartsWith(s, p) == Len(p) <= Len(s) /\ SubSeq(s, 1, Len(p)) = p

\* str.endswith
EndsWith(s, p) == Len(p) <= Len(s) /\ SubSeq(s, Len(s) - Len(p) + 1, Len(s)) = p

\* p in s
Contains(s, p) == \E i \in 0..(Len(s) - Len(p)) : SubSeq(s, i + 1, i + Len(p)) = p

(***************************************************************************)
(* ServiceDatabase.  services_db is a dict in insertion order: a sequence  *)
(* of entries with distinct names.  An entry keeps the fields the lookups  *)
(* read or write: auto is _auto_generated, seen is the last_seen stamp.    *)
(***************************************************************************)
Names(db) == {db[i].name : i \in 1..Len(db)}

IndexOf(db, n) == CHOOSE i \in 1..Len(db) : db[i].name = n

KnownEntry(n) == [name |-> n, auto |-> FALSE, seen |-> FALSE]

\* the file services.json: absent, or the catalog it holds
NoFile == [exists |-> FALSE, db |-> <<>>]

\* load_services_database: {} when the file is missing
load_services_database(file) == IF file.exists THEN file.db ELSE <<>>

\* enhanced_data as the callers pass it: nothing, or the process string of
\* a socket line (field: it contains the name of an updatable field)
NoData == [kind |-> "none", field |-> FALSE]

\* update_existing_service with a str for enhanced_data: 'field in str' is a
\* substring test and str[field] raises TypeError
update_existing_service(db, n, data) ==
    IF n \notin Names(db) THEN [raised |-> "no", db |-> db]
    ELSE IF data.field THEN [raised |-> "TypeError", db |-> db]
    ELSE [raised |-> "no",
          db |-> [db EXCEPT ![IndexOf(db, n)].seen = TRUE]]

\* the partial match of get_service_info: the first key, in dict order
PartialMatches(db, n) ==
    {i \in 1..Len(db) : \/ StartsWith(Chars(n), Chars(db[i].name))
                        \/ EndsWith(Chars(n), Chars(db[i].name))
                        \/ Contains(Chars(n), Chars(db[i].name))}

FirstPartial(db, n) ==
    CHOOSE i \in PartialMatches(db, n) : \A j \in PartialMatches(db, n) : i <= j

\* add_unknown_service
add_unknown_service(db, n) ==
    IF n \in Names(db)
      THEN [db EXCEPT ![IndexOf(db, n)] = [name |-> n, auto |-> TRUE, seen |-> FALSE]]
      ELSE Append(db, [name |-> n, auto |-> TRUE, seen |-> FALSE])

\* get_service_info(service_name, enhanced_data): the entry returned, the
\* catalog afterwards, whether an entry was added, or the exception raised
get_service_info(db, n, data) ==
    IF n \in Names(db)
      THEN IF data.kind = "none"
             THEN [raised |-> "no", db |-> db, added |-> FALSE,
                   entry |-> db[IndexOf(db, n)]]
             ELSE LET u == update_existing_service(db, n, data)
                  IN  [raised |-> u.raised, db |-> u.db, added |-> FALSE,
                       entry |-> u.db[IndexOf(db, n)]]
    ELSE IF PartialMatches(db, n) # {}
      THEN LET i == FirstPartial(db, n)
               u == IF data.kind = "none" THEN [raised |-> "no", db |-> db]
                    ELSE update_existing_service(db, db[i].name, data)
           IN  [raised |-> u.raised, db |-> u.db, added |-> FALSE,
                entry |-> u.db[i]]
    ELSE IF data.kind = "str"
      \* enhanced_data.get('binary_path') on a str
      THEN [raised |-> "AttributeError", db |-> db, added |-> FALSE,
            entry |-> KnownEntry(n)]
    ELSE LET d == add_unknown_service(db, n)
         IN  [raised |-> "no", db |-> d, added |-> TRUE,
              entry |-> d[IndexOf(d, n)]]

\* enhance_service(service_name, status): the catalog entry under the
\* runtime name and status
enhance_service(db, n, status) ==
    LET g == get_service_info(db, n, NoData)
    IN  [raised |-> g.raised, db |-> g.db, added |-> g.added,
         service |-> [name |-> n, status |-> status,
                      entry |-> g.entry.name, auto |-> g.entry.auto]]

(***************************************************************************)
(* parse_os_release.  The text of /etc/os-release is named by a string;    *)
(* OsLines gives its lines after strip(): what stands before the first     *)
(* '=' (key), whether there is a '=' (eq), whether the line starts with    *)
(* '#' (hash), and what follows the '=' without its quotes (value).        *)
(***************************************************************************)
OsLine(k, v) == [hash |-> FALSE, key |-> k, eq |-> TRUE, value |-> v]

OsLines(t) ==
    CASE t = "os:debian" ->
           << OsLine("PRETTY_NAME", "Debian GNU/Linux 12 (bookworm)"),
              OsLine("NAME", "Debian GNU/Linux"),
              OsLine("VERSION_ID", "12"),
              OsLine("VERSION", "12 (bookworm)"),
              OsLine("VERSION_CODENAME", "bookworm"),
              OsLine("ID", "debian"),
              OsLine("HOME_URL", "https://www.debian.org/") >>
      [] t = "os:minimal" -> << OsLine("PRETTY_NAME", "Alpine Linux") >>
      [] t = "os:ubuntu" ->
           << OsLine("NAME", "Ubuntu"),
              [hash |-> FALSE, key |-> "", eq |-> FALSE, value |-> ""],
              OsLine("ID", "ubuntu"),
              OsLine("ID_LIKE", "debian"),
              OsLine("SUPPORT_URL", "https://help.ubuntu.com/"),
              OsLine("BUG_REPORT_URL", "https://bugs.launchpad.net/ubuntu/"),
              OsLine("UBUNTU_CODENAME", "jammy"),
              OsLine("ID", "ubuntu-core") >>
      [] t = "os:noequals" ->
           << [hash |-> FALSE, key |-> "Debian GNU/Linux 12", eq |-> FALSE, value |-> ""],
              [hash |-> FALSE, key |-> "", eq |-> FALSE, value |-> ""] >>
      [] t = "os:comment" ->
           << [hash |-> TRUE, key |-> "# NAME", eq |-> TRUE, value |-> "hidden"],
              OsLine("id", "arch"),
              OsLine("VERSION", "") >>

\* key.lower()
Lower(k) ==
    CASE k = "NAME" -> "name"
      [] k = "VERSION" -> "version"
      [] k = "VERSION_ID" -> "version_id"
      [] k = "VERSION_CODENAME" -> "version_codename"
      [] k = "UBUNTU_CODENAME" -> "ubuntu_codename"
      [] k = "ID" -> "id"
      [] k = "ID_LIKE" -> "id_like"
      [] k = "PRETTY_NAME" -> "pretty_name"
      [] k = "HOME_URL" -> "home_url"
      [] k = "SUPPORT_URL" -> "support_url"
      [] k = "BUG_REPORT_URL" -> "bug_report_url"
      [] OTHER -> k

\* the loop over the lines: os_info[key.lower()] = value for every line with
\* a '=' that is no comment, a later line replacing an earlier one
OsInfo(t) ==
    LET lines == OsLines(t)
        pairs == {i \in 1..Len(lines) : lines[i].eq /\ ~lines[i].hash}
        last(k) == CHOOSE i \in pairs :
                     /\ Lower(lines[i].key) = k
                     /\ \A j \in pairs : Lower(lines[j].key) = k => j <= i
    IN  [k \in {Lower(lines[i].key) : i \in pairs} |-> lines[last(k)].value]

\* dict.get(k, default)
Get(d, k, default) == IF k \in DOMAIN d THEN d[k] ELSE default

\* the comprehension without its filter
DropNothing(d) == d

\* {k: v for k, v in parsed.items() if v is not None}
DropNone(d) == [k \in {x \in DOMAIN d : d[x] # "None"} |-> d[k]]

parse_os_release(t) ==
    IF t = "" \/ t = "Unknown"
      THEN [name |-> "Unknown", version |-> "Unknown", id |-> "unknown"]
      ELSE LET o == OsInfo(t)
           IN  DropNone(
                 [name |-> Get(o, "name", Get(o, "pretty_name", "Unknown")),
                  version |-> Get(o, "version", Get(o, "version_id", "Unknown")),
                  version_id |-> Get(o, "version_id", "Unknown"),
                  version_codename |-> Get(o, "version_codename",
                                           Get(o, "ubuntu_codename", "None")),
                  id |-> Get(o, "id", "unknown"),
                  id_like |-> Get(o, "id_like", "None"),
                  pretty_name |-> Get(o, "pretty_name", Get(o, "name", "Unknown")),
                  home_url |-> Get(o, "home_url", "None"),
                  support_url |-> Get(o, "support_url", "None"),
                  bug_report_url |-> Get(o, "bug_report_url", "None")])

(***************************************************************************)
(* The state.                                                              *)
(***************************************************************************)
VARIABLES
    \* InventoryManager.collect_all_data
    hosts,                  \* the host list it is called with
    opc,                    \* where the orchestrator thread is
    future,                 \* future_to_host: the state of each submitted task
    inventory,              \* self.inventory
    connection_failures,    \* self.connection_failures
    services_file,          \* services.json on disk
    \* one SystemCollector, run by the worker of hosts[1]
    config,                 \* the credentials configured
    pc,                     \* where collect_host_data is
    step,                   \* the command a sub-collector is at
    ssh_client,             \* self.ssh_client
    connection_failure_reason,
    attempts,               \* the transports connect() has tried
    info,                   \* the dict collect_system_info builds
    issued,                 \* the commands run_command has sent
    local,                  \* the dict a sub-collector builds
    services_db,            \* self.services_db.services_db
    new_services_added,
    services_updated,
    odd,                    \* results so far that differ from the nominal host's
    \* the workers of SpecInventory
    worker,
    \* a function applied to an input
    fn, arg, ret

orchVars == <<hosts, opc, future, inventory, connection_failures>>

collVars == <<config, pc, step, ssh_client, connection_failure_reason, attempts,
              info, issued, local, services_db, new_services_added,
              services_updated, odd>>

fnVars == <<fn, arg, ret>>

vars == <<orchVars, services_file, collVars, worker, fnVars>>

\* ThreadPoolExecutor(max_workers=max_workers)
max_workers == 2

Tasks == 1..Len(hosts)

NewFuture == [state |-> "new", submits |-> 0, exc |-> "no", data |-> EmptyDict]

\* the credential sets of the configuration bundle besides ssh_user and
\* ssh_key_path, which validate_ssh_configuration requires
Configs == [nas_password : BOOLEAN, windows_password : BOOLEAN]

\* services.json before the run
InitialFiles ==
    { NoFile,
      [exists |-> TRUE, db |-> <<KnownEntry("nginx"), KnownEntry("ssh")>>] }

InitOrch ==
    /\ opc = "submit"
    /\ future = [i \in Tasks |-> NewFuture]
    /\ inventory = EmptyDict
    /\ connection_failures = <<>>

InitCollector ==
    /\ pc = "new"
    /\ step = 0
    /\ ssh_client = "None"
    /\ connection_failure_reason = NoReason
    /\ attempts = <<>>
    /\ info = EmptyDict
    /\ issued = <<>>
    /\ local = EmptyDict
    /\ services_db = <<>>
    /\ new_services_added = FALSE
    /\ services_updated = FALSE
    /\ odd = 0

InitFn == fn = "none" /\ arg = <<>> /\ ret = <<>>

Init ==
    /\ hosts = <<"10.0.0.5">>
    /\ config \in Configs
    /\ services_file \in InitialFiles
    /\ InitOrch
    /\ InitCollector
    /\ worker = <<>>
    /\ InitFn

(***************************************************************************)
(* collect_all_data: the submit loop, the pool, the as_completed loop.     *)
(***************************************************************************)
Running == {i \in Tasks : future[i].state = "running"}

\* executor.submit for the next host of the list
Submit ==
    /\ opc = "submit"
    /\ LET i == CHOOSE j \in Tasks : future[j].state = "new"
                                     /\ \A k \in Tasks : future[k].state = "new" => j <= k
       IN  /\ future' = [future EXCEPT ![i].state = "queued", ![i].submits = @ + 1]
           /\ opc' = IF \A k \in Tasks \ {i} : future[k].state # "new"
                       THEN "as_completed" ELSE "submit"
    /\ UNCHANGED <<hosts, inventory, connection_failures, services_file,
                   collVars, worker, fnVars>>

\* a pool thread takes the oldest queued task
StartTask(i) ==
    /\ future[i].state = "queued"
    /\ \A k \in Tasks : future[k].state = "queued" => i <= k
    /\ Cardinality(Running) < max_workers
    /\ future' = [future EXCEPT ![i].state = "running"]
    /\ UNCHANGED <<hosts, opc, inventory, connection_failures, services_file,
                   collVars, worker, fnVars>>

\* 'except Exception' around future.result() and the merge
ExceptCatchesNothing(exc) == FALSE

ExceptCatches(exc) == exc \in {"AttributeError", "TypeError", "Exception"}

\* best_key of a returned record
BestKey(data, original_host) ==
    IF data["reachable"] /\ Has(data, "actual_hostname")
      THEN data["actual_hostname"] ELSE original_host

\* one turn of the as_completed loop, for a finished future
Consume(i) ==
    /\ opc = "as_completed"
    /\ future[i].state \in {"returned", "raised"}
    /\ IF future[i].state = "returned"
         THEN LET data == future[i].data
              IN  /\ connection_failures' =
                        IF ~data["reachable"]
                          THEN Append(connection_failures,
                                 [original_host |-> hosts[i],
                                  actual_hostname |-> Get(data, "actual_hostname", "None"),
                                  failure_reason |->
                                      Get(data, "connection_failure_reason",
                                          Reason("Unknown failure")),
                                  timestamp |-> Get(data, "timestamp", "None")])
                          ELSE connection_failures
                  /\ inventory' = Put(inventory, BestKey(data, hosts[i]), data)
                  /\ opc' = opc
         ELSE IF ExceptCatches(future[i].exc)
           THEN /\ connection_failures' =
                      Append(connection_failures,
                             [original_host |-> hosts[i],
                              actual_hostname |-> "None",
                              failure_reason |->
                                  [text |-> "Collection exception: ", detail |-> 1],
                              timestamp |-> "now"])
                /\ inventory' = inventory
                /\ opc' = opc
           ELSE /\ opc' = "raised"
                /\ UNCHANGED <<inventory, connection_failures>>
    /\ future' = [future EXCEPT ![i].state = "consumed"]
    /\ UNCHANGED <<hosts, services_file, collVars, worker, fnVars>>

\* the loop is exhausted: the with block and the finally clause end
Finish ==
    /\ opc = "as_completed"
    /\ \A i \in Tasks : future[i].state = "consumed"
    /\ opc' = "done"
    /\ UNCHANGED <<hosts, future, inventory, connection_failures, services_file,
                   collVars, worker, fnVars>>

(***************************************************************************)
(* collect_host_data for hosts[1]: the collector, command by command.      *)
(* The call site passes (host, config); the model binds the collector's    *)
(* user, key and timeout from config.                                      *)
(***************************************************************************)
Cost(r, nominal) == IF r = nominal THEN 0 ELSE 1

\* run_command sends a command; got: its result is neither None nor ''
Sent(c, r) == [cmd |-> c, got |-> Truthy(r)]

Issue(c, r) == issued' = Append(issued, Sent(c, r))

\* SystemCollector.__init__: ServiceDatabase() loads services.json
Construct ==
    /\ pc = "new"
    /\ future[1].state = "running"
    /\ services_db' = load_services_database(services_file)
    /\ pc' = "connect"
    /\ UNCHANGED <<orchVars, services_file, config, step, ssh_client,
                   connection_failure_reason, attempts, info, issued, local,
                   new_services_added, services_updated, odd, worker, fnVars>>

\* the dict collect_system_info starts from
BaseInfo == [hostname |-> hosts[1], timestamp |-> "ts", reachable |-> FALSE]

\* connect(), called first by collect_system_info
Connect ==
    /\ pc = "connect"
    /\ attempts' = Append(attempts, ConnectTransport)
    /\ \/ /\ ssh_client' = "open"
          /\ info' = Put(BaseInfo, "reachable", TRUE)
          /\ pc' = "hostname"
          /\ UNCHANGED connection_failure_reason
       \/ \E msg \in Messages :
          /\ ssh_client' = "unconnected"
          /\ connection_failure_reason' = FailureReason(msg)
          /\ info' = Put(BaseInfo, "connection_failure_reason", FailureReason(msg))
          /\ pc' = "finalize"
    /\ UNCHANGED <<orchVars, services_file, config, step, issued, local,
                   services_db, new_services_added, services_updated, odd,
                   worker, fnVars>>

HostnameResults == {"None", "", "Unknown", "web01"}

\* run_command('hostname -f 2>/dev/null || hostname')
Hostname ==
    /\ pc = "hostname"
    /\ \E r \in HostnameResults :
       /\ odd + Cost(r, "web01") <= MaxOdd
       /\ odd' = odd + Cost(r, "web01")
       /\ info' = IF Truthy(r) /\ r # "Unknown"
                    THEN Put(info, "actual_hostname", r) ELSE info
       /\ Issue("hostname", r)
    /\ pc' = "battery"
    /\ step' = 1
    /\ UNCHANGED <<orchVars, services_file, config, ssh_client,
                   connection_failure_reason, attempts, local, services_db,
                   new_services_added, services_updated, worker, fnVars>>

\* the keys of the commands dict, in its order
BatteryKeys ==
    << "os_release_raw", "kernel", "architecture", "uptime", "load_average",
       "memory_total", "memory_used", "disk_usage", "cpu_info", "cpu_cores",
       "ip_addresses" >>

BatteryResults(k) ==
    IF k = "os_release_raw" THEN {"None", "", "Unknown", "os:debian", "os:minimal"}
    ELSE {"None", "", "text"}

BatteryNominal(k) == IF k = "os_release_raw" THEN "os:debian" ELSE "text"

\* what follows the loop: the parsed os_release replaces the raw text
AfterBattery(d) ==
    LET p == Put(d, "os_release", parse_os_release(Get(d, "os_release_raw", "")))
    IN  IF p["os_release_raw"] # "Unknown" THEN Del(p, "os_release_raw") ELSE p

\* 'info[key] = result if result else "Unknown"'
FieldOf(r) == IF Truthy(r) THEN r ELSE "Unknown"

\* one turn of 'for key, command in commands.items()'
Battery ==
    /\ pc = "battery"
    /\ LET k == BatteryKeys[step]
       IN  /\ \E r \in BatteryResults(k) :
              /\ odd + Cost(r, BatteryNominal(k)) <= MaxOdd
              /\ odd' = odd + Cost(r, BatteryNominal(k))
              /\ info' = IF step = Len(BatteryKeys)
                           THEN AfterBattery(Put(info, k, FieldOf(r)))
                           ELSE Put(info, k, FieldOf(r))
              /\ Issue(k, r)
    /\ IF step = Len(BatteryKeys)
         THEN pc' = "memory" /\ step' = 1
         ELSE pc' = pc /\ step' = step + 1
    /\ UNCHANGED <<orchVars, services_file, config, ssh_client,
                   connection_failure_reason, attempts, local, services_db,
                   new_services_added, services_updated, worker, fnVars>>

(***************************************************************************)
(* get_memory_modules: lshw, dmidecode, sudo lshw, /proc/meminfo, then the *)
(* 'which' probes and the os-release head.  A result is None, '', a text   *)
(* of at most 10 characters ("short"), a longer text holding 'command not  *)
(* found' ("cnf") or 'sudo:' ("sudo"), or the tool's output ("out").       *)
(***************************************************************************)
MemCommands ==
    << "lshw", "dmidecode", "sudo lshw", "meminfo",
       "which lshw", "which dmidecode", "which cat", "os-release head" >>

MemResults(i) ==
    IF i <= 4 THEN {"None", "", "short", "cnf", "sudo", "out"}
    ELSE {"None", "", "out"}

\* the nominal host has lshw and /proc/meminfo, no dmidecode, no sudo
MemNominal(i) == IF i \in {2, 3, 5, 6} THEN "" ELSE "out"

\* a chain that takes any output for usable
MemUsableAny(i, r) == Truthy(r)

\* the test after each tool of the chain
MemUsable(i, r) ==
    CASE i \in {1, 2} -> Truthy(r) /\ r # "cnf" /\ r # "short"
      [] i = 3        -> Truthy(r) /\ r # "cnf" /\ r # "sudo" /\ r # "short"
      [] i = 4        -> Truthy(r) /\ r # "short"
      [] OTHER        -> FALSE

EmptyMemory ==
    [bios_info |-> EmptyDict, memory_banks |-> <<>>, cache_info |-> <<>>,
     system_memory |-> EmptyDict]

\* parse_lshw_memory_output: the sections of the text "out"
parse_lshw_memory_output(t) ==
    IF t = "out"
      THEN [EmptyMemory EXCEPT !.bios_info = [vendor |-> "AMI"],
                               !.memory_banks = <<[size |-> "8GiB"]>>]
      ELSE EmptyMemory

\* what get_memory_modules returns after tool i gave the usable text r
MemoryOf(i, r) ==
    CASE i \in {1, 3} -> parse_lshw_memory_output(r)
      [] i = 2 -> Put(Put(EmptyMemory, "raw_dmidecode", r), "source", "dmidecode")
      [] i = 4 -> Put(Put(EmptyMemory, "basic_meminfo", r), "source", "meminfo")

\* info after 'info["memory_modules"] = memory_data' and the bios_info copy
WithMemory(d, m) ==
    LET p == Put(d, "memory_modules", m)
    IN  IF m["bios_info"] # EmptyDict THEN Put(p, "bios_info", m["bios_info"]) ELSE p

\* one run_command of get_memory_modules
GetMemoryModules ==
    /\ pc = "memory"
    /\ \E r \in MemResults(step) :
       /\ Issue(MemCommands[step], r)
       /\ odd + Cost(r, MemNominal(step)) <= MaxOdd
       /\ odd' = odd + Cost(r, MemNominal(step))
       /\ IF MemUsable(step, r)
            THEN /\ info' = WithMemory(info, MemoryOf(step, r))
                 /\ local' = EmptyDict
                 /\ pc' = "services" /\ step' = 1
          ELSE IF step < 4
            THEN /\ UNCHANGED <<info, local>>
                 /\ pc' = pc /\ step' = step + 1
          ELSE IF step = 4
            THEN /\ local' = Put(Put(Put(EmptyMemory,
                                  "error", "Memory module information not available"),
                                  "available_commands", <<>>), "source", "error")
                 /\ UNCHANGED info
                 /\ pc' = pc /\ step' = step + 1
          ELSE IF step < 8
            THEN /\ local' = IF Truthy(r)
                               THEN [local EXCEPT !["available_commands"] =
                                        Append(@, MemCommands[step])]
                               ELSE local
                 /\ UNCHANGED info
                 /\ pc' = pc /\ step' = step + 1
          ELSE /\ info' = WithMemory(info, IF Truthy(r) THEN Put(local, "os_info", r)
                                                         ELSE local)
               /\ local' = EmptyDict
               /\ pc' = "services" /\ step' = 1
    /\ UNCHANGED <<orchVars, services_file, config, ssh_client,
                   connection_failure_reason, attempts, services_db,
                   new_services_added, services_updated, worker, fnVars>>

(***************************************************************************)
(* get_services.  The text of the systemctl pipeline is named by a string; *)
(* UnitLines gives its non-blank lines.                                    *)
(***************************************************************************)
UnitLines(t) ==
    CASE t = "units:ssh"      -> <<"ssh.service">>
      [] t = "units:ssh,cron" -> <<"ssh.service", "cron.service">>
      [] OTHER                -> <<>>

ServicesResults == {"None", "", "units:ssh", "units:ssh,cron"}

RECURSIVE EnhanceAll(_, _, _, _)
\* the loop of get_services over the lines: the catalog and the list after it
EnhanceAll(db, lines, services, added) ==
    IF lines = <<>> THEN [db |-> db, services |-> services, added |-> added]
    ELSE LET e == enhance_service(db, Head(lines), "active")
         IN  IF e.added
               \* add_unknown_service: 'self.new_services_added = True'
               THEN EnhanceAll(e.db, Tail(lines), Append(services, e.service), TRUE)
               ELSE EnhanceAll(e.db, Tail(lines), Append(services, e.service), added)

get_services(db, r) ==
    IF Truthy(r) THEN EnhanceAll(db, UnitLines(r), <<>>, FALSE)
    ELSE [db |-> db, services |-> <<>>, added |-> FALSE]

GetServices ==
    /\ pc = "services"
    /\ \E r \in ServicesResults :
       /\ Issue("systemctl list-units", r)
       /\ odd + Cost(r, "units:ssh") <= MaxOdd
       /\ odd' = odd + Cost(r, "units:ssh")
       /\ LET g == get_services(services_db, r)
          IN  /\ services_db' = g.db
              /\ new_services_added' = (new_services_added \/ g.added)
              /\ info' = Put(info, "services", g.services)
    /\ pc' = "docker"
    /\ UNCHANGED <<orchVars, services_file, config, step, ssh_client,
                   connection_failure_reason, attempts, local,
                   services_updated, worker, fnVars>>

(***************************************************************************)
(* get_docker_containers.  DockerRows gives, for each line after the       *)
(* header, the number of tab-separated parts.                              *)
(***************************************************************************)
DockerRows(t) ==
    CASE t = "docker:1" -> <<3>>
      [] t = "docker:2" -> <<3, 1>>
      [] OTHER          -> <<>>

\* 'NAMES' in result
HasNamesHeader(t) == t \in {"docker:0", "docker:1", "docker:2"}

DockerResults == {"None", "", "docker:error", "docker:0", "docker:1", "docker:2"}

get_docker_containers(r) ==
    IF Truthy(r) /\ HasNamesHeader(r)
      THEN SelectSeq(DockerRows(r), LAMBDA parts : parts >= 3)
      ELSE <<>>

GetDockerContainers ==
    /\ pc = "docker"
    /\ \E r \in DockerResults :
       /\ Issue("docker ps", r)
       /\ odd + Cost(r, "") <= MaxOdd
       /\ odd' = odd + Cost(r, "")
       /\ info' = Put(info, "docker_containers", get_docker_containers(r))
    /\ pc' = "ports"
    /\ UNCHANGED <<orchVars, services_file, config, step, ssh_client,
                   connection_failure_reason, attempts, local, services_db,
                   new_services_added, services_updated, worker, fnVars>>

(***************************************************************************)
(* get_listening_ports.  The output of 'ss -tlnp | grep LISTEN' is a       *)
(* sequence of lines; of a line the parser reads the number of whitespace  *)
(* tokens and its last token:                                              *)
(*   blank    no token                 short    1 to 3 tokens              *)
(*   four     exactly 4 tokens         nousers  5 or more, no 'users:'     *)
(*   nomatch  'users:' without ("name" users    'users:(("name",...'       *)
(* name is the process name of a users line, field says that the last      *)
(* token holds the name of an updatable catalog field.                     *)
(***************************************************************************)
SsLine(k, n) == [kind |-> k, name |-> n, field |-> FALSE]

\* run_command's result: None, or the text as its lines ('' has none)
SsNone == [none |-> TRUE, lines |-> <<>>]

SsText(ls) == [none |-> FALSE, lines |-> ls]

\* ports[:20]
PortCap == 20

\* the slice without the cap
TakeAll(ports, n) == ports

\* seq[:n]
Take(ports, n) == SubSeq(ports, 1, IF Len(ports) < n THEN Len(ports) ELSE n)

\* len(parts) >= 4
IsPortRow(line) == line.kind \in {"four", "nousers", "nomatch", "users"}

\* process_name of a row: the ("name" group, else 'unknown'
ProcessName(line) == IF line.kind = "users" THEN line.name ELSE "unknown"

\* enhanced_data of a row: process_info, a non-empty str
ProcessData(line) ==
    [kind |-> "str", field |-> (line.kind # "four" /\ line.field)]

RECURSIVE PortsLoop(_, _, _)
\* the loop over result.split('\n'): it ends at the first exception
PortsLoop(db, lines, ports) ==
    IF lines = <<>> THEN [raised |-> "no", db |-> db, ports |-> ports]
    ELSE IF ~IsPortRow(Head(lines)) THEN PortsLoop(db, Tail(lines), ports)
    ELSE LET line == Head(lines)
             g == get_service_info(db, ProcessName(line), ProcessData(line))
         IN  IF g.raised # "no"
               THEN [raised |-> g.raised, db |-> g.db, ports |-> ports]
               ELSE PortsLoop(g.db, Tail(lines),
                              Append(ports, [process_name |-> ProcessName(line),
                                             service_info |-> g.entry.name]))

\* get_listening_ports(): the list returned, or the exception raised
get_listening_ports(db, r) ==
    IF r.none \/ r.lines = <<>>
      THEN [raised |-> "no", db |-> db, ports |-> <<>>]
      ELSE LET l == PortsLoop(db, r.lines, <<>>)
           IN  [l EXCEPT !.ports = Take(l.ports, PortCap)]

\* the socket tables of the hosts of Spec
SsResults ==
    { SsNone, SsText(<<>>),
      SsText(<<SsLine("users", "sshd")>>),
      SsText(<<SsLine("short", ""), SsLine("users", "nginx"), SsLine("blank", "")>>),
      SsText(<<SsLine("users", "cron")>>),
      SsText(<<SsLine("four", "")>>),
      SsText(<<[SsLine("users", "sshd") EXCEPT !.field = TRUE]>>) }

GetListeningPorts ==
    /\ pc = "ports"
    /\ \E r \in SsResults :
       /\ Issue("ss -tlnp", IF r.none \/ r.lines = <<>> THEN "" ELSE "out")
       /\ odd + Cost(r, SsText(<<>>)) <= MaxOdd
       /\ odd' = odd + Cost(r, SsText(<<>>))
       /\ LET g == get_listening_ports(services_db, r)
          IN  /\ services_db' = g.db
              /\ IF g.raised = "no"
                   THEN /\ info' = Put(info, "listening_ports", g.ports)
                        /\ pc' = "k8s" /\ step' = 1
                        /\ UNCHANGED future
                   ELSE /\ pc' = "raised"
                        /\ future' = [future EXCEPT ![1].state = "raised",
                                                    ![1].exc = g.raised]
                        /\ UNCHANGED <<info, step>>
    /\ UNCHANGED <<hosts, opc, inventory, connection_failures, services_file,
                   config, ssh_client, connection_failure_reason, attempts,
                   local, new_services_added, services_updated, worker, fnVars>>

(***************************************************************************)
(* get_kubernetes_info: the version probe, then six kubectl commands.      *)
(* A table text stands for the rows parsed from it.                        *)
(***************************************************************************)
K8sCommands ==
    << "kubectl version", "kubectl cluster-info", "kubectl get nodes",
       "kubectl get namespaces", "kubectl get pods", "kubectl get services",
       "kubectl get deployments" >>

K8sKeys ==
    << "kubectl_version", "cluster_info", "nodes", "namespaces", "pods",
       "services", "deployments" >>

K8sResults(i) ==
    IF i = 5 THEN {"None", "", "pods:ok", "pods:crashloop"} ELSE {"None", "", "text"}

\* the nominal host has no kubectl
K8sNominal(i) == IF i = 1 THEN "" ELSE IF i = 5 THEN "pods:ok" ELSE "text"

\* the pods text holds a row the problematic test selects
HasProblematicPods(t) == t = "pods:crashloop"

\* the probe's result is not tested
ProbeFoundAlways(r) == TRUE

\* 'if not kubectl_version: return k8s_info', 'if not pve_version: return'
ProbeFound(r) == Truthy(r)

GetKubernetesInfo ==
    /\ pc = "k8s"
    /\ \E r \in K8sResults(step) :
       /\ Issue(K8sCommands[step], r)
       /\ odd + Cost(r, K8sNominal(step)) <= MaxOdd
       /\ odd' = odd + Cost(r, K8sNominal(step))
       /\ LET d == IF ~Truthy(r) THEN local
                   ELSE IF step = 5 /\ HasProblematicPods(r)
                     THEN Put(Put(local, "pods", r), "problematic_pods", r)
                   ELSE Put(local, K8sKeys[step], r)
          IN  IF (step = 1 /\ ~ProbeFound(r)) \/ step = Len(K8sCommands)
                THEN /\ info' = Put(info, "kubernetes_info", d)
                     /\ local' = EmptyDict
                     /\ pc' = "pve" /\ step' = 1
                ELSE /\ local' = d
                     /\ pc' = pc /\ step' = step + 1
                     /\ UNCHANGED info
    /\ UNCHANGED <<orchVars, services_file, config, ssh_client,
                   connection_failure_reason, attempts, services_db,
                   new_services_added, services_updated, worker, fnVars>>

(***************************************************************************)
(* get_proxmox_info: the pveversion probe, then five top-level commands.   *)
(* Each step issues its command and the follow-up commands its result      *)
(* leads to; f holds the results of the follow-ups ("" or "out").          *)
(***************************************************************************)
PveCommands ==
    << "pveversion", "pvesh get /cluster/status", "pvesh get /cluster/resources",
       "qm list", "pct list", "pvesm status" >>

PveKeys ==
    << "pve_version", "cluster_status", "cluster_resources", "vms",
       "containers", "storage" >>

\* "json:dict" is valid JSON that is an object where a list is expected
PveResults(i) ==
    CASE i = 1 -> {"None", "", "pve:8"}
      [] i \in {2, 3} -> {"", "json:list", "json:bad", "json:dict"}
      [] OTHER -> {"", "table"}

\* the nominal host has no pveversion
PveNominal(i) == IF i = 1 THEN "" ELSE IF i \in {2, 3} THEN "json:list" ELSE "table"

\* the cluster part of get_proxmox_info (lines 520-583)
ClusterPart(r, f) ==
    LET textual(withStatus) ==
          LET clustered == Truthy(f[1])
              single == IF withStatus
                          THEN << Sent("hostname", f[2]),
                                  Sent("pvesh get /nodes/$(hostname)/status", f[3]) >>
                          ELSE << Sent("hostname", f[2]) >>
              keepNodes == IF clustered THEN Truthy(f[2])
                           ELSE (~withStatus \/ Truthy(f[3]))
          IN  [raised |-> "no",
               cmds |-> << Sent("pvecm status", f[1]) >> \o
                        (IF clustered THEN << Sent("pvecm nodes", f[2]) >>
                                      ELSE single),
               status |-> [clustered |-> clustered, source |-> "text",
                           transport |-> clustered],
               hasNodes |-> keepNodes,
               nodes |-> [source |-> IF clustered THEN "pvecm" ELSE "single",
                          named |-> clustered \/ Truthy(f[2]),
                          detailed |-> ~clustered /\ withStatus]]
    IN  CASE r = "json:list" ->
               [raised |-> "no",
                cmds |-> << Sent("pvesh get /nodes/pve1/status", f[1]),
                            Sent("pvecm status", f[2]) >>,
                status |-> [clustered |-> TRUE, source |-> "json",
                            transport |-> Truthy(f[2])],
                hasNodes |-> TRUE,
                nodes |-> [source |-> "json", named |-> TRUE,
                           detailed |-> Truthy(f[1])]]
          [] r = "json:dict" ->
               [raised |-> "AttributeError", cmds |-> <<>>,
                status |-> [clustered |-> FALSE, source |-> "none",
                            transport |-> FALSE],
                hasNodes |-> FALSE,
                nodes |-> [source |-> "none", named |-> FALSE, detailed |-> FALSE]]
          [] r = "json:bad" -> textual(FALSE)
          [] OTHER -> textual(TRUE)

\* rows of the qm list / pct list table after the header; a container row
\* carries parts[2] as its lock unless it is "-"
GuestRows(kind) ==
    IF kind = "vm"
      THEN << [vmid |-> "100", status |-> "running", lock |-> "None", type |-> "vm"],
              [vmid |-> "101", status |-> "paused", lock |-> "None", type |-> "vm"] >>
      ELSE << [vmid |-> "200", status |-> "stopped", lock |-> "None",
               type |-> "container"],
              [vmid |-> "201", status |-> "running", lock |-> "web",
               type |-> "container"] >>

max_detailed == 20

RECURSIVE ParseGuests(_, _, _, _)
\* parse_vm_list / parse_container_list after their hostname command:
\* config and status/current are asked for running or stopped guests while
\* fewer than max_detailed have detail
ParseGuests(rows, f, acc, detail_count) ==
    IF rows = <<>> THEN acc
    ELSE LET g == Head(rows)
             ask == g.status \in {"running", "stopped"} /\ detail_count < max_detailed
             got == ask /\ (Truthy(f[2]) \/ Truthy(f[3]))
             path == IF g.type = "vm" THEN "qemu/" ELSE "lxc/"
         IN  ParseGuests(Tail(rows), f,
                 [cmds |-> acc.cmds \o
                      (IF ask THEN << Sent("pvesh get " \o path \o g.vmid \o "/config",
                                           f[2]),
                                      Sent("pvesh get " \o path \o g.vmid \o
                                           "/status/current", f[3]) >>
                              ELSE <<>>),
                  items |-> Append(acc.items,
                      [vmid |-> g.vmid, status |-> g.status, lock |-> g.lock,
                       type |-> g.type, detailed |-> got])],
                 IF got THEN detail_count + 1 ELSE detail_count)

\* lines 609-628: the test that selects problematic VMs and containers
IsProblematic(g) ==
    /\ (g.status \notin {"running", "stopped"} \/ Truthy(g.lock))
    /\ (g.status # "stopped" \/ Truthy(g.lock))

GetProxmoxInfo ==
    /\ pc = "pve"
    /\ \E r \in PveResults(step),
          f \in IF step \in {2, 4, 5} THEN [1..3 -> {"", "out"}]
                ELSE {[k \in 1..3 |-> "out"]} :
       /\ LET cost == Cost(r, PveNominal(step)) + Cost(f[1], "out")
                       + Cost(f[2], "out") + Cost(f[3], "out")
          IN  odd + cost <= MaxOdd /\ odd' = odd + cost
       /\ LET c == ClusterPart(r, f)
              guests == ParseGuests(GuestRows(IF step = 4 THEN "vm" ELSE "container"),
                                    f, [cmds |-> << Sent("hostname", f[1]) >>,
                                        items |-> <<>>], 0)
              followUps == IF step = 2 THEN c.cmds
                           ELSE IF step \in {4, 5} /\ Truthy(r) THEN guests.cmds
                           ELSE <<>>
              raised == IF step = 2 THEN c.raised
                        ELSE IF step = 3 /\ r = "json:dict" THEN "AttributeError"
                        ELSE "no"
              d == CASE step = 2 ->
                          IF c.hasNodes
                            THEN Put(Put(local, "cluster_status", c.status),
                                     "nodes", c.nodes)
                            ELSE Put(local, "cluster_status", c.status)
                     [] step = 3 ->
                          IF r = "json:list" THEN Put(local, PveKeys[3], r) ELSE local
                     [] step \in {4, 5} ->
                          IF Truthy(r) THEN Put(local, PveKeys[step], guests.items)
                          ELSE local
                     [] OTHER ->
                          IF Truthy(r) THEN Put(local, PveKeys[step], r) ELSE local
              all == (IF Has(d, "vms") THEN d["vms"] ELSE <<>>) \o
                     (IF Has(d, "containers") THEN d["containers"] ELSE <<>>)
              problematic_resources == SelectSeq(all, IsProblematic)
              done == IF problematic_resources # <<>>
                        THEN Put(d, "problematic_resources", problematic_resources)
                        ELSE d
          IN  /\ issued' = issued \o << Sent(PveCommands[step], r) >> \o followUps
              /\ IF raised # "no"
                   THEN /\ pc' = "raised"
                        /\ future' = [future EXCEPT ![1].state = "raised",
                                                    ![1].exc = raised]
                        /\ UNCHANGED <<info, local, step>>
                   ELSE IF step = 1 /\ ~ProbeFound(r)
                     THEN /\ info' = Put(info, "proxmox_info", local)
                          /\ pc' = "close"
                          /\ UNCHANGED <<future, local, step>>
                   ELSE IF step = Len(PveCommands)
                     THEN /\ info' = Put(info, "proxmox_info", done)
                          /\ local' = EmptyDict
                          /\ pc' = "close"
                          /\ UNCHANGED <<future, step>>
                   ELSE /\ local' = d
                        /\ step' = step + 1
                        /\ UNCHANGED <<future, info, pc>>
    /\ UNCHANGED <<hosts, opc, inventory, connection_failures, services_file,
                   config, ssh_client, connection_failure_reason, attempts,
                   services_db, new_services_added, services_updated, worker,
                   fnVars>>

\* line 146: self.ssh_client.close(), then the record is returned
Close ==
    /\ pc = "close"
    /\ ssh_client' = "closed"
    /\ pc' = "finalize"
    /\ UNCHANGED <<orchVars, services_file, config, step,
                   connection_failure_reason, attempts, info, issued, local,
                   services_db, new_services_added, services_updated, odd,
                   worker, fnVars>>

\* json.dump(..., sort_keys=True): the order of the names in the file
SortedNames ==
    << "cron", "cron.service", "nginx", "ssh", "ssh.service", "sshd", "unknown" >>

\* save_services_database: the catalog as the file holds it afterwards
save_services_database(db) ==
    [exists |-> TRUE,
     db |-> LET present == SelectSeq(SortedNames, LAMBDA n : n \in Names(db))
            IN  [i \in 1..Len(present) |-> db[IndexOf(db, present[i])]]]

\* collect_host_data after collect_system_info: services_db.finalize(),
\* then the record is the worker's result
Finalize ==
    /\ pc = "finalize"
    /\ services_file' = IF new_services_added \/ services_updated
                          THEN save_services_database(services_db)
                          ELSE services_file
    /\ future' = [future EXCEPT ![1].state = "returned", ![1].data = info]
    /\ pc' = "done"
    /\ UNCHANGED <<hosts, opc, inventory, connection_failures, config, step,
                   ssh_client, connection_failure_reason, attempts, info,
                   issued, local, services_db, new_services_added,
                   services_updated, odd, worker, fnVars>>

Next ==
    \/ Submit
    \/ \E i \in Tasks : StartTask(i)
    \/ Construct
    \/ Connect
    \/ Hostname
    \/ Battery
    \/ GetMemoryModules
    \/ GetServices
    \/ GetDockerContainers
    \/ GetListeningPorts
    \/ GetKubernetesInfo
    \/ GetProxmoxInfo
    \/ Close
    \/ Finalize
    \/ \E i \in Tasks : Consume(i)
    \/ Finish

Spec == Init /\ [][Next]_vars

(***************************************************************************)
(* collect_all_data on a list of NumHosts hosts.  A worker is              *)
(* collect_host_data reduced to what the as_completed loop can see of it:  *)
(* the connection attempt, then a record or an exception.                  *)
(***************************************************************************)
HostPool == << "10.0.0.5", "10.0.0.6", "web01", "db01", "10.0.0.7", "10.0.0.8" >>

NoCredentials == [nas_password |-> FALSE, windows_password |-> FALSE]

InitInventory ==
    /\ hosts = SubSeq(HostPool, 1, NumHosts)
    /\ config = NoCredentials
    /\ services_file \in InitialFiles
    /\ InitOrch
    /\ InitCollector
    /\ worker = [i \in Tasks |-> [pc |-> "new", attempts |-> 0, info |-> EmptyDict,
                                  db |-> <<>>, added |-> FALSE, saved |-> FALSE]]
    /\ InitFn

\* connect() failed and the worker asks again
AfterFailedConnectRetry == "new"

\* lines 100-103: 'if not self.connect(): ... return info'
AfterFailedConnect == "return"

\* the worker of task i: SystemCollector(...), whose ServiceDatabase() loads
\* services.json into the worker's own catalog, then connect(); a failed
\* connect ends collect_system_info, finalize() finds nothing to save and
\* the worker returns the record
WorkerConnect(i) ==
    /\ future[i].state = "running"
    /\ worker[i].pc = "new"
    /\ LET base == [hostname |-> hosts[i], timestamp |-> "ts", reachable |-> FALSE]
       IN  \/ /\ worker' = [worker EXCEPT ![i].pc = "connected",
                                          ![i].attempts = @ + 1,
                                          ![i].info = Put(base, "reachable", TRUE),
                                          ![i].db = load_services_database(services_file)]
              /\ UNCHANGED future
           \/ \E kw \in {"connection refused", "timed out"} :
              LET data == Put(base, "connection_failure_reason",
                              FailureReason([kw |-> {kw}, len |-> 1]))
              IN  IF AfterFailedConnect = "return"
                    THEN /\ worker' = [worker EXCEPT ![i].pc = "done",
                                                     ![i].attempts = @ + 1,
                                                     ![i].info = data]
                         /\ future' = [future EXCEPT ![i].state = "returned",
                                                     ![i].data = data]
                    ELSE /\ worker' = [worker EXCEPT ![i].pc = AfterFailedConnect,
                                                     ![i].attempts = @ + 1]
                         /\ UNCHANGED future
    /\ UNCHANGED <<hosts, opc, inventory, connection_failures, services_file,
                   collVars, fnVars>>

\* a worker that files its record itself
InventoryAfterWorkerStores(inv, key, data) == Put(inv, key, data)

\* self.inventory after collect_host_data: the worker returns its record
\* and leaves the shared map as it is
InventoryAfterWorker(inv, key, data) == inv

\* the unit a host runs besides those of the shipped catalog: cron on
\* web01, sshd on db01, none on a host that reports no name
HostUnit(h) ==
    CASE h = "web01" -> "cron"
      [] h = "db01"  -> "sshd"
      [] OTHER       -> "None"

\* the rest of collect_system_info and finalize(): the record comes back,
\* with or without actual_hostname, and the worker's catalog is written to
\* services.json when the host's unit added an entry to it; or an
\* exception leaves the worker
WorkerCollect(i) ==
    /\ future[i].state = "running"
    /\ worker[i].pc = "connected"
    /\ \/ \E h \in {"None", "web01", "db01"} :
          LET u == HostUnit(h)
              data == IF Truthy(h) THEN Put(worker[i].info, "actual_hostname", h)
                      ELSE worker[i].info
              g == IF Truthy(u) THEN enhance_service(worker[i].db, u, "active")
                   ELSE [db |-> worker[i].db, added |-> FALSE]
          IN  /\ worker' = [worker EXCEPT ![i].pc = "done", ![i].info = data,
                                          ![i].db = g.db, ![i].added = g.added,
                                          ![i].saved = g.added]
              /\ services_file' = IF g.added THEN save_services_database(g.db)
                                  ELSE services_file
              /\ inventory' = InventoryAfterWorker(inventory, hosts[i], data)
              /\ future' = [future EXCEPT ![i].state = "returned", ![i].data = data]
       \/ /\ worker' = [worker EXCEPT ![i].pc = "raised"]
          /\ future' = [future EXCEPT ![i].state = "raised",
                                      ![i].exc = "AttributeError"]
          /\ UNCHANGED <<services_file, inventory>>
    /\ UNCHANGED <<hosts, opc, connection_failures, collVars, fnVars>>

NextInventory ==
    \/ Submit
    \/ \E i \in Tasks : StartTask(i)
    \/ \E i \in Tasks : WorkerConnect(i)
    \/ \E i \in Tasks : WorkerCollect(i)
    \/ \E i \in Tasks : Consume(i)
    \/ Finish

SpecInventory == InitInventory /\ [][NextInventory]_vars

(***************************************************************************)
(* get_listening_ports applied to socket tables of up to MaxPortLines      *)
(* further lines after a short arbitrary beginning.                        *)
(***************************************************************************)
MaxPortLines == 22

\* the lines a table can begin with
PrefixLines ==
    { SsLine("header", ""), SsLine("blank", ""), SsLine("four", ""),
      SsLine("nousers", ""), SsLine("users", "nginx"), SsLine("users", "cron") }

PortInputs ==
    { [db |-> load_services_database(file),
       text |-> SsText(p \o [i \in 1..n |-> SsLine("users", "ssh")])] :
         file \in InitialFiles,
         p \in {<<>>} \cup {<<a>> : a \in PrefixLines}
                      \cup {<<a, b>> : a \in PrefixLines, b \in PrefixLines},
         n \in 0..MaxPortLines }

InitPorts ==
    /\ hosts = <<>>
    /\ config = NoCredentials
    /\ services_file = NoFile
    /\ InitOrch
    /\ InitCollector
    /\ worker = <<>>
    /\ fn = "none"
    /\ arg \in PortInputs
    /\ ret = [raised |-> "no", db |-> <<>>, ports |-> <<>>]

CallGetListeningPorts ==
    /\ fn = "none"
    /\ fn' = "get_listening_ports"
    /\ ret' = get_listening_ports(arg.db, arg.text)
    /\ UNCHANGED <<orchVars, services_file, collVars, worker, arg>>

NextPorts == CallGetListeningPorts

SpecPorts == InitPorts /\ [][NextPorts]_vars

(***************************************************************************)
(* The parsers and catalog operations applied to inputs of their own: arg  *)
(* holds the function's name and its input, ret what it returns.           *)
(***************************************************************************)
MaxUnitLines == 22

\* "... | head -20" at the end of the active-service command
HeadCount == 20

\* the last stage of the command's pipeline, run on the host
head(stream, n) == Take(stream, n)

\* what "systemctl ... | awk '{print $1}' | grep -v '^UNIT'" feeds to head:
\* one first field per line, some of them blank
UnitStreams ==
    { p \o [i \in 1..n |-> "ssh.service"] :
        p \in {<<>>, <<"">>, <<"cron.service">>, <<"nginx">>},
        n \in 0..MaxUnitLines }

\* run_command of the active-service command, then get_services on its result
CallGetServices ==
    /\ fn = "none"
    /\ arg.f = "get_services"
    /\ fn' = arg.f
    /\ LET result == head(arg.stream, HeadCount)
           lines == SelectSeq(result, LAMBDA l : l # "")
       IN  ret' = IF lines = <<>>
                    THEN [db |-> arg.db, services |-> <<>>, added |-> FALSE]
                    ELSE EnhanceAll(arg.db, lines, <<>>, FALSE)
    /\ UNCHANGED <<orchVars, services_file, collVars, worker, arg>>

MaxPods == 2

\* a line of "kubectl get pods --no-headers -o wide": how many fields it
\* has, its STATUS, its READY split at '/', and its RESTARTS (digits: int()
\* accepts it, n: its value)
PodLines ==
    [parts : {5}, status : {"Running", "Completed", "Pending", "Evicted"},
     ready : {<<"1", "1">>, <<"0", "1">>, <<"1">>},
     restarts : {[digits |-> TRUE, n |-> 5], [digits |-> TRUE, n |-> 6],
                 [digits |-> FALSE, n |-> 0]}]
    \cup {[parts |-> 4, status |-> "Running", ready |-> <<"1", "1">>,
           restarts |-> [digits |-> FALSE, n |-> 0]]}

\* the test of get_kubernetes_info (system.py lines 462-470)
pod_problematic(p) ==
    \/ p.status \notin {"Running", "Completed"}
    \/ (Len(p.ready) > 1 /\ p.ready[1] # p.ready[2])
    \/ (IF p.restarts.digits THEN p.restarts.n ELSE 0) > 5

\* KubernetesCollector.is_pod_problematic
is_pod_problematic(p) ==
    IF p.status \in {"Failed", "Error", "CrashLoopBackOff", "ImagePullBackOff",
                     "Pending", "ContainerCreating", "Terminating", "Unknown"}
      THEN TRUE
    ELSE IF p.status = "Running" /\ Len(p.ready) = 2 /\ p.ready[1] # p.ready[2]
      THEN TRUE
    ELSE p.restarts.digits /\ p.restarts.n > 5

\* the pods part of SystemCollector.get_kubernetes_info
CallGetPods ==
    /\ fn = "none"
    /\ arg.f = "pods"
    /\ fn' = "get_kubernetes_info"
    /\ ret' = LET pods == SelectSeq(arg.lines, LAMBDA l : l.parts >= 5)
              IN  [pods |-> pods, problematic_pods |-> SelectSeq(pods, pod_problematic)]
    /\ UNCHANGED <<orchVars, services_file, collVars, worker, arg>>

\* KubernetesCollector.collect_pods
CallCollectPods ==
    /\ fn = "none"
    /\ arg.f = "pods"
    /\ fn' = "collect_pods"
    /\ ret' = LET pods == SelectSeq(arg.lines, LAMBDA l : l.parts >= 5)
              IN  [pods |-> pods,
                   problematic_pods |-> SelectSeq(pods, is_pod_problematic)]
    /\ UNCHANGED <<orchVars, services_file, collVars, worker, arg>>

MaxGuests == 2

\* a VM or container as the list parsers leave it; lock is None, '' or a name
Guests(type) ==
    [type : {type}, status : {"running", "stopped", "paused"},
     lock : {"None", "", "backup"}]

\* every resource is reported
identify_all(vms, containers) == vms \o containers

\* ProxmoxCollector.identify_problematic_resources(vms, containers)
identify_problematic_resources(vms, containers) ==
    SelectSeq(vms, IsProblematic) \o SelectSeq(containers, IsProblematic)

CallIdentifyProblematic ==
    /\ fn = "none"
    /\ arg.f = "identify_problematic_resources"
    /\ fn' = arg.f
    /\ ret' = identify_problematic_resources(arg.vms, arg.containers)
    /\ UNCHANGED <<orchVars, services_file, collVars, worker, arg>>

\* what a pvesh command returned: nothing ("absent"), text that is not
\* JSON ("bad"), a list of objects ("list"), a non-empty object ("object"),
\* or a list of numbers ("scalars")
JsonKinds == {"absent", "bad", "list", "object", "scalars"}

\* ProxmoxCollector.collect_proxmox_info for a host with pveversion: the
\* record, or the exception that leaves it.  cluster, node and resources
\* are what /cluster/status, /nodes/<name>/status and /cluster/resources
\* returned; the list of /cluster/status holds one online node.
collect_proxmox_info(pve_version, cluster, node, resources) ==
    LET base == Put(EmptyDict, "pve_version", pve_version)
        \* collect_cluster_info: 'for item in cluster_data: item.get(...)',
        \* then get_node_detailed_status: 'status_data.get(...)'
        cluster_raised ==
            IF cluster \in {"object", "scalars"} THEN "AttributeError"
            ELSE IF cluster = "list" /\ node \in {"list", "scalars"}
              THEN "AttributeError"
            ELSE "no"
        with_cluster ==
            Put(Put(base, "cluster_status",
                    IF cluster = "list" THEN "json" ELSE "text"),
                "nodes", IF cluster = "list" /\ node = "object"
                           THEN "detailed" ELSE "plain")
        \* collect_cluster_resources: 'for resource in resources_data'
        resources_raised ==
            IF resources \in {"object", "scalars"} THEN "AttributeError" ELSE "no"
        with_resources ==
            IF resources = "list"
              THEN Put(with_cluster, "cluster_resources", "summary")
              ELSE with_cluster
    IN  IF ~Truthy(pve_version) THEN [raised |-> "no", record |-> EmptyDict]
        ELSE IF cluster_raised # "no" THEN [raised |-> cluster_raised, record |-> base]
        ELSE IF resources_raised # "no"
          THEN [raised |-> resources_raised, record |-> with_cluster]
        ELSE [raised |-> "no", record |-> with_resources]

CallCollectProxmoxInfo ==
    /\ fn = "none"
    /\ arg.f = "collect_proxmox_info"
    /\ fn' = arg.f
    /\ ret' = collect_proxmox_info(arg.pve_version, arg.cluster, arg.node,
                                   arg.resources)
    /\ UNCHANGED <<orchVars, services_file, collVars, worker, arg>>

\* ServiceDatabase() on the file, two lookups of one name with the same
\* enhanced_data (none, as enhance_service passes it from get_services, or
\* the process string get_listening_ports passes), then finalize(): what the
\* lookups returned, the catalog, the number of writes of the file, and
\* what the first lookup gave (after_first).
\* An exception ends the sequence where it is raised.
CallLookupTwice ==
    /\ fn = "none"
    /\ arg.f = "lookup_twice"
    /\ fn' = arg.f
    /\ LET db0 == load_services_database(arg.file)
           g1 == get_service_info(db0, arg.name, arg.data)
           g2 == get_service_info(g1.db, arg.name, arg.data)
       IN  ret' = IF g1.raised # "no"
                    THEN [raised |-> g1.raised, first |-> "None", second |-> "None",
                          db |-> g1.db, writes |-> 0, after_first |-> g1]
                  ELSE IF g2.raised # "no"
                    THEN [raised |-> g2.raised, first |-> g1.entry, second |-> "None",
                          db |-> g2.db, writes |-> 0, after_first |-> g1]
                  ELSE [raised |-> "no", first |-> g1.entry, second |-> g2.entry,
                        db |-> g2.db, after_first |-> g1,
                        \* finalize(): 'if self.new_services_added or ...'
                        writes |-> IF g1.added \/ g2.added THEN 1 ELSE 0]
    /\ UNCHANGED <<orchVars, services_file, collVars, worker, arg>>

\* bytes_to_gb.  A byte count is held as whole MiB and a rest below one
\* MiB, bytes = mib * 1024^2 + rest, so that 1024^4 stays an integer of the
\* model; "huge" is a digit string whose value in GB is beyond a float,
\* "text" a string int() rejects, "None" no string at all.
Kib == 1024

TbFromGb == 1000                     \* 'if gb_value >= 1000'

MaxDelta == 2

ByteCounts ==
    { [kind |-> "digits", mib |-> t + d, rest |-> r] :
        t \in {0, Kib, TbFromGb * Kib, Kib * Kib, Kib * Kib * TbFromGb},
        d \in (0 - MaxDelta)..MaxDelta,
        r \in {0, Kib * Kib - 1} }

\* the unit chosen at powers of 1024 only
unit_of_binary(gb_whole) ==
    IF gb_whole >= Kib THEN "TB" ELSE IF gb_whole >= 1 THEN "GB" ELSE "MB"

\* the branch taken on gb_value, whose integer part is gb_whole
unit_of(gb_whole) ==
    IF gb_whole >= TbFromGb THEN "TB" ELSE IF gb_whole >= 1 THEN "GB" ELSE "MB"

\* bytes_to_gb: the input itself when int() raises ValueError or TypeError,
\* else the unit and the integer part of the number rendered
bytes_to_gb(x) ==
    IF x.kind \in {"text", "None"} THEN [raised |-> "no", out |-> x]
    ELSE IF x.kind = "huge"
      \* bytes_value / (1024 ** 3) on an int too large for a float
      THEN [raised |-> "OverflowError", out |-> x]
    ELSE LET gb_whole == x.mib \div Kib
             unit == unit_of(gb_whole)
         IN  [raised |-> "no",
              out |-> [kind |-> "rendered", unit |-> unit,
                       whole |-> CASE unit = "TB" -> gb_whole \div Kib
                                   [] unit = "GB" -> gb_whole
                                   [] unit = "MB" -> x.mib]]

CallBytesToGb ==
    /\ fn = "none"
    /\ arg.f = "bytes_to_gb"
    /\ fn' = arg.f
    /\ ret' = bytes_to_gb(arg.x)
    /\ UNCHANGED <<orchVars, services_file, collVars, worker, arg>>

MaxGuestRows == 22

\* the rows of a 'qm list' or 'pct list' of n running guests after an
\* optional paused one
GuestList(type, paused, n) ==
    (IF paused THEN << [vmid |-> "99", status |-> "paused", lock |-> "None",
                        type |-> type] >>
     ELSE <<>>)
    \o [i \in 1..n |-> [vmid |-> ToString(100 + i), status |-> "running",
                        lock |-> "None", type |-> type]]

\* parse_vm_list / parse_container_list on such a list, the detail commands
\* answering arg.detail
CallParseGuests ==
    /\ fn = "none"
    /\ arg.f = "parse_guests"
    /\ fn' = arg.f
    /\ ret' = ParseGuests(GuestList(arg.type, arg.paused, arg.n), arg.detail,
                          [cmds |-> <<>>, items |-> <<>>], 0)
    /\ UNCHANGED <<orchVars, services_file, collVars, worker, arg>>

\* a Proxmox host as the cluster commands see it: part of a cluster or
\* standalone, and (in a cluster) its quorum, its node count and whether
\* 'pvecm status' prints a Transport line
MaxNodes == 2

ClusterHosts ==
    [clustered : BOOLEAN, quorate : BOOLEAN, transport : BOOLEAN,
     nodes : 1..MaxNodes]

\* the list 'pvesh get /cluster/status' prints for the host: an item of type
\* cluster only when the host is in a cluster, and the local node
pvesh_cluster_status(h) ==
    (IF h.clustered
       THEN << [type |-> "cluster", name |-> "lab", nodes |-> h.nodes,
                version |-> 3, quorate |-> IF h.quorate THEN 1 ELSE 0] >>
       ELSE <<>>)
    \o << [type |-> "node", name |-> "pve1", online |-> 0] >>

\* the lines 'pvecm status 2>/dev/null' prints for the host, each as the
\* label before its ':' and what follows; a standalone host prints nothing
pvecm_status(h) ==
    IF ~h.clustered THEN <<>>
    ELSE << [label |-> "Cluster information", value |-> ""],
            [label |-> "Name", value |-> "lab"],
            [label |-> "Config Version", value |-> "3"] >>
         \o (IF h.transport THEN << [label |-> "Transport", value |-> "knet"] >>
             ELSE <<>>)
         \o << [label |-> "Quorum provider", value |-> "corosync_votequorum"],
               [label |-> "Nodes", value |-> h.nodes],
               [label |-> "Node ID", value |-> "0x00000001"],
               [label |-> "Quorate", value |-> IF h.quorate THEN "Yes" ELSE "No"] >>

\* parse_cluster_json: the first item of type cluster fills the record
parse_cluster_json(cluster_data) ==
    LET base == Put(EmptyDict, "clustered", TRUE)
        found == {i \in 1..Len(cluster_data) : cluster_data[i].type = "cluster"}
    IN  IF found = {} THEN base
        ELSE LET item == cluster_data[CHOOSE i \in found : \A j \in found : i <= j]
             IN  Put(Put(Put(Put(base, "name", item.name),
                             "node_count", item.nodes),
                         "config_version", item.version),
                     "quorate", item.quorate # 0)

RECURSIVE parse_cluster_status(_, _)
\* parse_cluster_status: the elif chain over the lines of 'pvecm status'
parse_cluster_status(lines, cluster_info) ==
    IF lines = <<>> THEN cluster_info
    ELSE LET line == Head(lines)
             next == CASE line.label = "Name" -> Put(cluster_info, "name", line.value)
                       [] line.label = "Config Version" ->
                            Put(cluster_info, "config_version", line.value)
                       [] line.label = "Transport" ->
                            Put(cluster_info, "transport", line.value)
                       [] line.label = "Nodes" ->
                            Put(cluster_info, "node_count", line.value)
                       [] line.label = "Quorate" ->
                            Put(cluster_info, "quorate", line.value = "Yes")
                       [] OTHER -> cluster_info
         IN  parse_cluster_status(Tail(lines), next)

\* collect_cluster_info on 'pvesh get /cluster/status' (json) and
\* collect_cluster_info_text (text) for the same host: the cluster_status
\* record of each path
CallClusterStatus ==
    /\ fn = "none"
    /\ arg.f = "collect_cluster_info"
    /\ fn' = arg.f
    /\ LET status == pvecm_status(arg.host)
           has(label) == \E i \in 1..Len(status) : status[i].label = label
           json == parse_cluster_json(pvesh_cluster_status(arg.host))
       IN  ret' = [json |-> IF has("Transport") THEN Put(json, "transport", "knet")
                            ELSE json,
                   text |-> IF has("Cluster information")
                              THEN parse_cluster_status(status,
                                                        Put(EmptyDict, "clustered", TRUE))
                              ELSE Put(Put(EmptyDict, "clustered", FALSE), "nodes", 1)]
    /\ UNCHANGED <<orchVars, services_file, collVars, worker, arg>>

CallParseOsRelease ==
    /\ fn = "none"
    /\ arg.f = "parse_os_release"
    /\ fn' = arg.f
    /\ ret' = parse_os_release(arg.text)
    /\ UNCHANGED <<orchVars, services_file, collVars, worker, arg>>

CallInputs ==
    { [f |-> "get_services", db |-> load_services_database(file), stream |-> u] :
        file \in InitialFiles, u \in UnitStreams }
    \cup { [f |-> "pods", lines |-> l] :
             l \in UNION {[1..n -> PodLines] : n \in 1..MaxPods} }
    \cup { [f |-> "identify_problematic_resources", vms |-> v, containers |-> c] :
             v \in UNION {[1..n -> Guests("vm")] : n \in 0..MaxGuests},
             c \in UNION {[1..n -> Guests("container")] : n \in 0..1} }
    \cup [f : {"lookup_twice"}, file : InitialFiles,
          name : {"cron", "unknown", "sshd", "nginx"},
          data : {NoData, [kind |-> "str", field |-> FALSE],
                  [kind |-> "str", field |-> TRUE]}]
    \cup [f : {"parse_os_release"},
          text : {"", "Unknown", "os:debian", "os:minimal", "os:ubuntu",
                  "os:noequals", "os:comment"}]
    \cup { [f |-> "bytes_to_gb", x |-> x] :
             x \in ByteCounts \cup {[kind |-> "huge"], [kind |-> "text"],
                                    [kind |-> "None"]} }
    \cup [f : {"parse_guests"}, type : {"vm", "container"}, paused : BOOLEAN,
          n : 0..MaxGuestRows, detail : [1..3 -> {"", "out"}]]
    \cup [f : {"collect_cluster_info"}, host : ClusterHosts]
    \cup [f : {"collect_proxmox_info"}, pve_version : {"", "pve:8"},
          cluster : JsonKinds, node : JsonKinds, resources : JsonKinds]

InitCalls ==
    /\ hosts = <<>>
    /\ config = NoCredentials
    /\ services_file = NoFile
    /\ InitOrch
    /\ InitCollector
    /\ worker = <<>>
    /\ fn = "none"
    /\ arg \in CallInputs
    /\ ret = <<>>

NextCalls ==
    \/ CallGetServices
    \/ CallGetPods
    \/ CallCollectPods
    \/ CallIdentifyProblematic
    \/ CallCollectProxmoxInfo
    \/ CallLookupTwice
    \/ CallParseOsRelease
    \/ CallBytesToGb
    \/ CallParseGuests
    \/ CallClusterStatus

SpecCalls == InitCalls /\ [][NextCalls]_vars

(***************************************************************************)
(* main() of lab-documenter.py from the validation of the settings on.     *)
(* arg is the command line and the merged configuration, fn is where main  *)
(* is, ret holds the exit of the run and what it has contacted so far.     *)
(***************************************************************************)
MainInputs ==
    [f : {"main"},
     ssh_user : BOOLEAN,               \* config['ssh_user'] is set
     ssh_key : BOOLEAN,                \* the file at ssh_key_path exists
     scan : BOOLEAN, csv_only : BOOLEAN, dry_run : BOOLEAN,
     csv_hosts : BOOLEAN,              \* the CSV file lists a host
     update_wiki : BOOLEAN,
     mediawiki_api : BOOLEAN,          \* config['mediawiki_api'] is set
     mediawiki_credentials : BOOLEAN]  \* user and password are both set

InitMain ==
    /\ hosts = <<>>
    /\ config = NoCredentials
    /\ services_file = NoFile
    /\ InitOrch
    /\ InitCollector
    /\ worker = <<>>
    /\ fn = "none"
    /\ arg \in MainInputs
    /\ ret = [exit |-> "running", contacted |-> <<>>, hosts |-> FALSE]

\* lines 1127-1134: 'Validate required settings'
MainValidate ==
    /\ fn = "none"
    /\ arg.f = "main"
    /\ IF ~arg.ssh_user
         THEN /\ fn' = "exit"
              /\ ret' = [ret EXCEPT !.exit = "SSH user not configured"]
       ELSE IF (arg.scan \/ arg.csv_only) /\ ~arg.ssh_key
         THEN /\ fn' = "exit"
              /\ ret' = [ret EXCEPT !.exit = "SSH key not found"]
       ELSE /\ fn' = "hosts"
            /\ UNCHANGED ret
    /\ UNCHANGED <<orchVars, services_file, collVars, worker, arg>>

\* lines 1147-1181: the network scan, the CSV file, the empty host list and
\* the dry run
MainHosts ==
    /\ fn = "hosts"
    /\ \E found \in BOOLEAN :
         LET scans == ~arg.csv_only /\ arg.scan /\ ~arg.dry_run
             contacted == IF scans THEN Append(ret.contacted, "scan_network")
                          ELSE ret.contacted
             any == (scans /\ found) \/ arg.csv_hosts
         IN  /\ ~scans => found
             /\ IF ~any
                  THEN /\ fn' = "exit"
                       /\ ret' = [exit |-> "No hosts found to scan",
                                  contacted |-> contacted, hosts |-> FALSE]
                ELSE IF arg.dry_run
                  THEN /\ fn' = "exit"
                       /\ ret' = [exit |-> "return", contacted |-> contacted,
                                  hosts |-> TRUE]
                ELSE /\ fn' = "collect"
                     /\ ret' = [exit |-> "running", contacted |-> contacted,
                                hosts |-> TRUE]
    /\ UNCHANGED <<orchVars, services_file, collVars, worker, arg>>

\* lines 1183-1197 and on: collect_all_data, the inventory and the
\* documentation files, then the MediaWiki update if it was asked for
MainCollect ==
    /\ fn = "collect"
    /\ fn' = "exit"
    /\ LET contacted == Append(ret.contacted, "collect_all_data")
       IN  IF arg.update_wiki /\ arg.mediawiki_api
             THEN IF ~arg.mediawiki_credentials
                    THEN ret' = [ret EXCEPT !.exit = "MediaWiki credentials not configured",
                                            !.contacted = contacted]
                    ELSE ret' = [ret EXCEPT !.exit = "return",
                                            !.contacted = Append(contacted, "update_page")]
             ELSE ret' = [ret EXCEPT !.exit = "return", !.contacted = contacted]
    /\ UNCHANGED <<orchVars, services_file, collVars, worker, arg>>

NextMain ==
    \/ MainValidate
    \/ MainHosts
    \/ MainCollect

SpecMain == InitMain /\ [][NextMain]_vars

(***************************************************************************)
(* NASCollector (system_nas.py): one collector over one host's command     *)
(* runner, called up to MaxCalls times.  arg is the host, ret the          *)
(* collector's state and what each call returned, issued the commands      *)
(* sent, info the host's record as the connection left it.                 *)
(***************************************************************************)
MaxCalls == 3
MaxMarkers == 2

\* the probes of detect_nas_type in the order of its elif chain
Probes ==
    << "synoinfo.conf", "uLinux.conf", "usr/builtin/etc", "nas_feature",
       "raidiator_version", "etc/version", "freenas-v1.db", "freenasUI",
       "uname freebsd", "ls /volume" >>

\* the type each probe assigns ("uname freebsd" decides with one more command)
ProbeType ==
    << "synology", "qnap", "asustor", "buffalo", "netgear", "truenas",
       "truenas", "truenas", "freebsd", "generic_nas" >>

PsTruenas == "ps aux truenas"

\* 'if self.nas_type is None' guards the probing
NasCachedUnlessUnknown(nas_type) == nas_type \notin {"None", "unknown"}

NasCached(nas_type) == nas_type # "None"

RECURSIVE ProbeFrom(_, _, _)
ProbeFrom(i, markers, cmds) ==
    IF i > Len(Probes)
      THEN [nas_type |-> "unknown", cmds |-> cmds]
      ELSE IF Probes[i] \in markers
        THEN IF Probes[i] = "uname freebsd"
               THEN [nas_type |-> IF PsTruenas \in markers
                                    THEN "truenas" ELSE "freebsd_nas",
                     cmds |-> cmds \o <<Probes[i], PsTruenas>>]
               ELSE [nas_type |-> ProbeType[i],
                     cmds |-> Append(cmds, Probes[i])]
        ELSE ProbeFrom(i + 1, markers, Append(cmds, Probes[i]))

detect_nas_type(nas_type, markers) ==
    LET p == IF NasCached(nas_type)
               THEN [nas_type |-> nas_type, cmds |-> <<>>]
               ELSE ProbeFrom(1, markers, <<>>)
    IN  [nas_type |-> p.nas_type,
         cmds |-> p.cmds,
         result |-> IF p.nas_type # "unknown" THEN p.nas_type ELSE "None"]

\* the storage a host reports: zpool names with their health, the md lines
\* of /proc/mdstat as words, the 'VG Name' lines of vgdisplay as the pieces
\* between ':' characters
PoolTexts ==
    {"pools:none", "pools:zfs", "pools:md", "pools:lvm-colon", "pools:lvm-plain"}

ZpoolNames(t) == IF t = "pools:zfs" THEN <<"tank", "backup">> ELSE <<>>

ZpoolHealth(name) == IF name = "tank" THEN "ONLINE" ELSE ""

MdstatLines(t) ==
    IF t = "pools:md"
      THEN << <<"md0", ":", "active", "raid1", "sdb1[1]", "sda1[0]">>,
              <<"md1", ":", "inactive">>,
              <<"md2", ":", "inactive", "raid5", "sdc1[0]">> >>
      ELSE <<>>

VgLines(t) ==
    CASE t = "pools:lvm-colon" -> << <<"  VG Name", " vg0">> >>
      [] t = "pools:lvm-plain" -> << <<"  VG Name               vg0">> >>
      [] OTHER -> <<>>

ZfsPools(nas_type, t) ==
    IF nas_type = "truenas"
      THEN [i \in 1..Len(ZpoolNames(t)) |->
              [name |-> ZpoolNames(t)[i], type |-> "zfs_pool",
               state |-> IF Truthy(ZpoolHealth(ZpoolNames(t)[i]))
                           THEN ZpoolHealth(ZpoolNames(t)[i]) ELSE "unknown"]]
      ELSE <<>>

HasLevel(parts) == Len(parts) >= 4

MdPools(t) ==
    [i \in 1..Len(SelectSeq(MdstatLines(t), HasLevel)) |->
       LET parts == SelectSeq(MdstatLines(t), HasLevel)[i]
       IN  [name |-> parts[1], level |-> parts[4], type |-> "mdadm_raid",
            state |-> IF \E j \in 1..Len(parts) : parts[j] = "active"
                        THEN "active" ELSE "unknown"]]

\* 'vg_name = line.split(':')[1].strip()'
RECURSIVE VgPools(_, _)
VgPools(lines, pools) ==
    IF lines = <<>>
      THEN [raised |-> "no", pools |-> pools]
      ELSE IF Len(Head(lines)) < 2
        THEN [raised |-> "IndexError", pools |-> pools]
        ELSE VgPools(Tail(lines),
                     Append(pools, [name |-> "vg0", type |-> "lvm_volume_group",
                                    state |-> "active"]))

get_storage_pools(nas_type, t) ==
    LET v == VgPools(VgLines(t), <<>>)
    IN  [raised |-> v.raised,
         cmds |-> (IF nas_type = "truenas"
                     THEN <<"zpool status">>
                          \o [i \in 1..Len(ZpoolNames(t)) |-> "zpool status pool"]
                     ELSE <<>>) \o <<"cat /proc/mdstat", "vgdisplay">>,
         pools |-> IF v.raised = "no"
                     THEN ZfsPools(nas_type, t) \o MdPools(t) \o v.pools
                     ELSE <<>>]

\* the disk listing a host prints, as words, and what smartctl says of a disk
DiskTexts == {"disks:none", "disks:two", "disks:ten"}

DiskLines(t) ==
    CASE t = "disks:two" -> << <<"sda", "1.8T", "WDC", "Red">>, <<"sdb">>,
                               <<"sdc", "4T">> >>
      [] t = "disks:ten" -> [i \in 1..10 |-> <<"sd" \o ToString(i), "1T">>]
      [] OTHER -> <<>>

SmartStatus(disk_name) ==
    CASE disk_name = "sda" -> "PASSED"
      [] disk_name = "sdc" -> "FAILED"
      [] OTHER -> ""

HasSize(parts) == Len(parts) >= 2

DiskCap == 8

get_disk_health(nas_type, t) ==
    LET rows == SelectSeq(DiskLines(t), HasSize)
        disks == [i \in 1..Len(rows) |->
                    [device |-> rows[i][1],
                     size |-> rows[i][2],
                     model |-> IF Len(rows[i]) > 2
                                 THEN SubSeq(rows[i], 3, Len(rows[i]))
                                 ELSE <<"Unknown">>,
                     health |-> IF Truthy(SmartStatus(rows[i][1]))
                                  THEN SmartStatus(rows[i][1]) ELSE "Unknown"]]
    IN  [cmds |-> <<IF nas_type = "truenas" THEN "geom disk status" ELSE "lsblk">>
                  \o [i \in 1..Len(rows) |-> "smartctl"],
         disks |-> Take(disks, DiskCap)]

\* collect_nas_info: the dict display evaluates the getters in order, so a
\* getter that raises keeps the later ones from running.  The getters other
\* than get_storage_pools and get_disk_health index a line only after testing
\* its length; they stand here by their name, as command and as value.
GettersBefore == <<"get_model_info", "get_volume_info", "get_share_info">>

GettersAfter ==
    <<"get_network_interfaces", "get_installed_packages", "get_system_status">>

collect_nas_info(nas_type, host) ==
    LET d == detect_nas_type(nas_type, host.markers)
        p == get_storage_pools(d.nas_type, host.pools)
        k == get_disk_health(d.nas_type, host.disks)
    IN  IF ~Truthy(d.result)
          THEN [nas_type |-> d.nas_type, raised |-> "no", cmds |-> d.cmds,
                value |-> EmptyDict]
          ELSE IF p.raised # "no"
            THEN [nas_type |-> d.nas_type, raised |-> p.raised,
                  cmds |-> d.cmds \o GettersBefore \o p.cmds,
                  value |-> EmptyDict]
            ELSE [nas_type |-> d.nas_type, raised |-> "no",
                  cmds |-> d.cmds \o GettersBefore \o p.cmds \o k.cmds
                           \o GettersAfter,
                  value |-> [nas_type |-> d.result,
                             model_info |-> "get_model_info",
                             volumes |-> "get_volume_info",
                             shares |-> "get_share_info",
                             storage_pools |-> p.pools,
                             disk_health |-> k.disks,
                             network_interfaces |-> "get_network_interfaces",
                             installed_packages |-> "get_installed_packages",
                             system_status |-> "get_system_status"]]

\* the commands of a host that print something, at most MaxMarkers of them
NasHosts ==
    { [markers |-> m, pools |-> p, disks |-> k] :
        m \in {s \in SUBSET ({Probes[i] : i \in 1..Len(Probes)} \cup {PsTruenas}) :
                 Cardinality(s) <= MaxMarkers},
        p \in PoolTexts, k \in DiskTexts }

InitNas ==
    /\ hosts = <<>>
    /\ config = NoCredentials
    /\ services_file = NoFile
    /\ InitOrch
    /\ pc = "new"
    /\ step = 0
    /\ ssh_client = "None"
    /\ connection_failure_reason = NoReason
    /\ attempts = <<>>
    /\ info \in {[platform_type |-> t] : t \in {"linux", "nas"}}
    /\ issued = <<>>
    /\ local = EmptyDict
    /\ services_db = <<>>
    /\ new_services_added = FALSE
    /\ services_updated = FALSE
    /\ odd = 0
    /\ worker = <<>>
    /\ fn = "none"
    /\ arg \in NasHosts
    \* NASCollector.__init__: 'self.nas_type = None'
    /\ ret = [nas_type |-> "None", calls |-> <<>>]

NasUnchanged ==
    UNCHANGED <<orchVars, services_file, config, pc, step, ssh_client,
                connection_failure_reason, attempts, info, local, services_db,
                new_services_added, services_updated, odd, worker, arg>>

DetectNasType ==
    /\ Len(ret.calls) < MaxCalls
    /\ LET d == detect_nas_type(ret.nas_type, arg.markers)
       IN  /\ ret' = [nas_type |-> d.nas_type,
                      calls |-> Append(ret.calls,
                                       [call |-> "detect_nas_type",
                                        raised |-> "no", cmds |-> d.cmds,
                                        value |-> d.result])]
           /\ issued' = issued \o d.cmds
    /\ fn' = "detect_nas_type"
    /\ NasUnchanged

CollectNasInfo ==
    /\ Len(ret.calls) < MaxCalls
    /\ LET c == collect_nas_info(ret.nas_type, arg)
       IN  /\ ret' = [nas_type |-> c.nas_type,
                      calls |-> Append(ret.calls,
                                       [call |-> "collect_nas_info",
                                        raised |-> c.raised, cmds |-> c.cmds,
                                        value |-> c.value])]
           /\ issued' = issued \o c.cmds
    /\ fn' = "collect_nas_info"
    /\ NasUnchanged

NextNas ==
    \/ DetectNasType
    \/ CollectNasInfo

SpecNas == InitNas /\ [][NextNas]_vars

(***************************************************************************)
(* Properties.                                                             *)
(***************************************************************************)

\* C1: a record returned by collect_system_info with reachable false has
\* none of the sub-record keys (os_release, memory_modules, services,
\* listening_ports, docker_containers, kubernetes_info, proxmox_info) and
\* its connection_failure_reason is a non-empty string.
C1_UnreachableRecord ==
    \A i \in Tasks :
        (/\ future[i].state \in {"returned", "consumed"}
         /\ future[i].exc = "no"
         /\ ~future[i].data["reachable"])
        => LET d == future[i].data
           IN  /\ DOMAIN d \cap {"os_release", "memory_modules", "services",
                                 "listening_ports", "docker_containers",
                                 "kubernetes_info", "proxmox_info"} = {}
               /\ Has(d, "connection_failure_reason")
               /\ d["connection_failure_reason"].text \notin {"None", ""}

\* an unreachable record whose exception message was empty and matched no
\* keyword has been returned and consumed
C1_Witness ==
    /\ future[1].state = "consumed"
    /\ future[1].exc = "no"
    /\ ~future[1].data["reachable"]
    /\ future[1].data["connection_failure_reason"] = [text |-> "Unknown error: ",
                                                      detail |-> 0]

\* C2 (as stated): whenever connect() fails the recorded reason is one of
\* the six classes timeout, refused, unreachable, authentication failure,
\* DNS failure, unknown.
C2_SixClasses ==
    ssh_client = "unconnected"
    => connection_failure_reason.text \in
         { "Connection timeout (waited Ns)",
           "Connection refused (SSH service may not be running)",
           "No route to host (network unreachable)", "Host unreachable",
           "Network unreachable",
           "Authentication failed (check SSH key/credentials)",
           "No authentication methods available",
           "Permission denied (check SSH key permissions)",
           "DNS resolution failed",
           "Unknown error: " }

\* C2 (amended): whenever connect() fails the recorded reason is non-empty
\* and is the timeout reason with the configured timeout, one of the twelve
\* fixed reasons of connect(), or "Unknown error: " followed by the
\* normalized message, at most 80 characters of it, or 80 and "...".
C2_CodeReasons ==
    ssh_client = "unconnected"
    => LET reason == connection_failure_reason
       IN  \/ /\ reason.text = "Connection timeout (waited Ns)"
              /\ reason.detail = ssh_timeout
           \/ /\ reason.detail = 0
              /\ reason.text \in
                   { "Connection refused (SSH service may not be running)",
                     "No route to host (network unreachable)", "Host unreachable",
                     "Authentication failed (check SSH key/credentials)",
                     "No authentication methods available",
                     "SSH key compatibility issue (DSA key format)",
                     "Permission denied (check SSH key permissions)",
                     "DNS resolution failed", "Network unreachable",
                     "Unable to connect to SSH port 22",
                     "Connection reset by remote host",
                     "Connection failed (port may be filtered or closed)" }
           \/ /\ reason.text = "Unknown error: "
              /\ reason.detail \in (0..TruncateAt) \cup {TruncateAt + 3}

\* connect() failed with an unclassified message longer than 80 characters
C2_Witness ==
    /\ ssh_client = "unconnected"
    /\ connection_failure_reason = [text |-> "Unknown error: ",
                                    detail |-> TruncateAt + 3]

\* C3: a returned record with reachable true carries exactly one platform
\* tag from {linux, windows, nas}; one with reachable false carries none.
C3_PlatformTag ==
    \A i \in Tasks :
        (future[i].state \in {"returned", "consumed"} /\ future[i].exc = "no")
        => LET d == future[i].data
           IN  IF d["reachable"]
                 THEN Has(d, "platform_type")
                      /\ d["platform_type"] \in {"linux", "windows", "nas"}
                 ELSE ~Has(d, "platform_type")

\* C4: the transports attempted so far are, at every moment, the beginning
\* of the fixed order remote management with password, password SSH, key
\* SSH, restricted to the credentials the configuration holds; one attempt
\* at a time, none after a success.
C4_CascadeOrder ==
    LET order == (IF config.windows_password THEN <<"winrm">> ELSE <<>>)
                 \o (IF config.nas_password THEN <<"ssh_password">> ELSE <<>>)
                 \o <<"ssh_key">>
    IN  /\ Len(attempts) <= Len(order)
        /\ \A k \in 1..Len(attempts) : attempts[k] = order[k]
        /\ ssh_client = "open" => attempts # <<>>

\* C5: with only SSH-key credentials configured, neither the remote
\* management transport nor password SSH is ever attempted.
C5_KeyOnly ==
    (~config.windows_password /\ ~config.nas_password)
    => \A k \in 1..Len(attempts) : attempts[k] \notin {"winrm", "ssh_password"}

\* a key-only configuration whose host was connected and collected
C5_Witness ==
    /\ ~config.windows_password /\ ~config.nas_password
    /\ attempts = <<"ssh_key">>
    /\ pc = "done"
    /\ info["reachable"]

C7_NoRetry ==
    \A i \in Tasks :
        LET entries == {k \in 1..Len(connection_failures) :
                           connection_failures[k].original_host = hosts[i]}
        IN  /\ future[i].submits <= 1
            /\ opc # "submit" => future[i].submits = 1
            /\ worker[i].attempts <= 1
            /\ Cardinality(entries) <= 1
            /\ (/\ future[i].state = "consumed"
                /\ worker[i].pc = "done"
                /\ ~worker[i].info["reachable"])
               => Cardinality(entries) = 1

\* a finished run with a host whose one connection attempt failed
C7_Witness ==
    /\ opc = "done"
    /\ \E i \in Tasks :
          /\ worker[i].pc = "done"
          /\ ~worker[i].info["reachable"]
          /\ worker[i].attempts = 1
          /\ Cardinality({k \in 1..Len(connection_failures) :
                             connection_failures[k].original_host = hosts[i]}) = 1

\* C8: once connected, every command of the fixed battery (hostname, the
\* eleven fact commands, the first memory command, the service, container
\* and socket listings, the kubectl and pveversion probes) is issued, in
\* that order, whatever earlier commands returned; a fact command that
\* failed or returned nothing leaves "Unknown" in its own field; and the
\* record is returned with reachable true.
C8_BatteryCompleted ==
    (ssh_client \in {"open", "closed"} /\ pc \in {"raised", "done"})
    => LET battery == <<"hostname">> \o BatteryKeys
                      \o << MemCommands[1], "systemctl list-units", "docker ps",
                            "ss -tlnp", K8sCommands[1], PveCommands[1] >>
           First(c) == CHOOSE k \in 1..Len(issued) :
                          /\ issued[k].cmd = c
                          /\ \A j \in 1..(k - 1) : issued[j].cmd # c
       IN  /\ pc = "done"
           /\ future[1].exc = "no"
           /\ future[1].data["reachable"]
           /\ \A n \in 1..Len(battery) :
                 \E k \in 1..Len(issued) : issued[k].cmd = battery[n]
           /\ \A m, n \in 1..Len(battery) :
                 m < n => First(battery[m]) < First(battery[n])
           /\ \A k \in 1..Len(issued) :
                 (issued[k].cmd \in {BatteryKeys[n] : n \in 2..Len(BatteryKeys)}
                  /\ ~issued[k].got)
                 => info[issued[k].cmd] = "Unknown"

\* C9: when the kubectl probe returns nothing no other kubectl command is
\* issued, and when the pveversion probe returns nothing no command at all
\* follows it; when both return nothing the record is returned reachable,
\* with kubernetes_info and proxmox_info present and empty and the other
\* sections present, and no connection failure is recorded for the host.
C9_EmptyProbes ==
    LET probed(c) == \E k \in 1..Len(issued) : issued[k].cmd = c /\ ~issued[k].got
        others(cmds) == {k \in 1..Len(issued) :
                            \E n \in 2..Len(cmds) : issued[k].cmd = cmds[n]}
    IN  /\ probed(K8sCommands[1]) => others(K8sCommands) = {}
        /\ probed(PveCommands[1])
           => /\ issued[Len(issued)].cmd = PveCommands[1]
              /\ pc \in {"close", "finalize", "done"}
        /\ (probed(K8sCommands[1]) /\ probed(PveCommands[1]))
           => /\ info["reachable"]
              /\ Has(info, "kubernetes_info") /\ DOMAIN info["kubernetes_info"] = {}
              /\ Has(info, "proxmox_info") /\ DOMAIN info["proxmox_info"] = {}
              /\ {"os_release", "memory_modules", "services",
                  "docker_containers", "listening_ports"} \subseteq DOMAIN info
              /\ connection_failure_reason = NoReason
              /\ connection_failures = <<>>
              /\ pc = "done" => (future[1].exc = "no" /\ future[1].data = info)

\* a finished run whose host answered neither probe and was merged
C9_Witness ==
    /\ opc = "done"
    /\ pc = "done"
    /\ \E k \in 1..Len(issued) : issued[k].cmd = K8sCommands[1] /\ ~issued[k].got
    /\ issued[Len(issued)] = Sent(PveCommands[1], "")
    /\ DOMAIN info["kubernetes_info"] = {}
    /\ DOMAIN info["proxmox_info"] = {}
    /\ connection_failures = <<>>
    /\ DOMAIN inventory # {}

\* C10: the list get_listening_ports returns has at most 20 entries,
\* however many lines the socket table has.
C10_PortsCapped ==
    (fn = "get_listening_ports" /\ ret.raised = "no") => Len(ret.ports) <= PortCap

\* a table of more than 20 socket lines of a catalogued process gave 20 ports
C10_Witness ==
    /\ fn = "get_listening_ports"
    /\ Len(SelectSeq(arg.text.lines, IsPortRow)) > PortCap
    /\ ret.raised = "no"
    /\ Len(ret.ports) = PortCap

\* C11: the services list get_services produces has at most 20 entries,
\* and they are the non-blank ones among the first 20 lines of the
\* active-service list, in order.
C11_ServicesCapped ==
    fn = "get_services"
    => /\ Len(ret.services) <= 20
       /\ LET first == SubSeq(arg.stream, 1, IF Len(arg.stream) < 20
                                              THEN Len(arg.stream) ELSE 20)
          IN  [k \in 1..Len(ret.services) |-> ret.services[k].name]
                = SelectSeq(first, LAMBDA l : l # "")

\* an active-service list of more than 20 lines gave 20 services
C11_Witness ==
    /\ fn = "get_services"
    /\ Len(arg.stream) > 20
    /\ Len(ret.services) = 20

\* C12: in both implementations the problematic pods are exactly the
\* parsed pods whose status is not Running or Completed, or whose ready
\* fraction has unequal sides, or whose restart count is greater than 5,
\* in the order of the pods.
C12_ProblematicPods ==
    fn \in {"get_kubernetes_info", "collect_pods"}
    => ret.problematic_pods =
         SelectSeq(ret.pods,
                   LAMBDA p : \/ p.status \notin {"Running", "Completed"}
                              \/ (Len(p.ready) = 2 /\ p.ready[1] # p.ready[2])
                              \/ (p.restarts.digits /\ p.restarts.n > 5))

\* C13: identify_problematic_resources returns exactly the VMs and
\* containers whose status is neither running nor stopped or which hold a
\* lock, VMs first, each list in its input order; a stopped resource
\* without a lock is never in it, a locked one always is.
C13_ProblematicResources ==
    fn = "identify_problematic_resources"
    => ret = SelectSeq(arg.vms \o arg.containers,
                       LAMBDA g : \/ g.status \notin {"running", "stopped"}
                                  \/ g.lock \notin {"None", ""})

\* a stopped VM without a lock was left out, a locked stopped VM and a
\* paused container were kept, in that order
C13_Witness ==
    /\ fn = "identify_problematic_resources"
    /\ arg.vms = << [type |-> "vm", status |-> "stopped", lock |-> "None"],
                    [type |-> "vm", status |-> "stopped", lock |-> "backup"] >>
    /\ arg.containers = << [type |-> "container", status |-> "paused", lock |-> ""] >>
    /\ ret = << arg.vms[2], arg.containers[1] >>

\* C14: whatever the pvesh commands return (nothing, invalid JSON, or JSON
\* of an unexpected shape), collect_proxmox_info returns a record and no
\* exception leaves it.
C14_ProxmoxRecovers ==
    fn = "collect_proxmox_info" => ret.raised = "no"

\* C15: the catalog file is written at most once in a run, and a write
\* happens only once every worker has completed.
C15_CatalogOnce ==
    /\ Cardinality({i \in DOMAIN worker : worker[i].saved}) <= 1
    /\ (\E i \in DOMAIN worker : worker[i].saved)
         => \A j \in DOMAIN worker : worker[j].pc \in {"done", "raised"}

\* C16: every host is submitted once and its record is built by its own
\* worker; inventory and connection_failures change only in a step of the
\* orchestrator that consumes a finished future, in which no worker moves,
\* and every record in the inventory is the finished record of a worker.
C16_SingleWriter ==
    /\ [](/\ \A i \in DOMAIN worker : future[i].submits <= 1
          /\ \A k \in DOMAIN inventory :
                \E i \in DOMAIN worker : /\ worker[i].pc = "done"
                                         /\ future[i].state = "consumed"
                                         /\ inventory[k] = worker[i].info)
    /\ [][(inventory' # inventory \/ connection_failures' # connection_failures)
            => /\ worker' = worker
               /\ \E i \in Tasks : /\ future[i].state \in {"returned", "raised"}
                                   /\ future'[i].state = "consumed"
                                   /\ \A j \in Tasks \ {i} : future'[j] = future[j]]_vars

\* two workers' records and a failure have been merged by the orchestrator
C16_Witness ==
    /\ opc = "done"
    /\ worker # <<>>
    /\ Cardinality(DOMAIN inventory) >= 2
    /\ Len(connection_failures) >= 1
    /\ \E i \in DOMAIN worker : worker[i].pc = "raised"

\* C17: two lookups of a name that the catalog matches neither exactly nor
\* partially return the same auto-generated record, leave one entry under
\* that name and lead to one write of the file.
C17_LookupTwice ==
    (/\ fn = "lookup_twice"
     /\ arg.name \notin Names(load_services_database(arg.file))
     /\ PartialMatches(load_services_database(arg.file), arg.name) = {})
    => /\ ret.raised = "no"
       /\ ret.first = ret.second
       /\ ret.first.auto
       /\ Cardinality({i \in 1..Len(ret.db) : ret.db[i].name = arg.name}) = 1
       /\ ret.writes = 1

\* C18: a run that ends with a configuration error (no SSH user, no SSH key
\* file, no MediaWiki credentials for a requested wiki update) has made no
\* network scan and has contacted no host; and no host is contacted in a
\* run whose configuration has one of these errors.
C18_FatalBeforeContact ==
    /\ ret.exit \in {"SSH user not configured", "SSH key not found",
                     "MediaWiki credentials not configured"}
         => ret.contacted = <<>>
    /\ (\/ ~arg.ssh_user
        \/ ~arg.ssh_key
        \/ (arg.update_wiki /\ arg.mediawiki_api /\ ~arg.mediawiki_credentials))
         => ret.contacted = <<>>

\* C19: parse_os_release returns, for every text, a record with the keys
\* name, version and id; no value of the record is None; and an optional
\* key is in the record only if a KEY=VALUE line of the text gives it its
\* value (for version_codename: a VERSION_CODENAME or UBUNTU_CODENAME line).
C19_OsReleaseTotal ==
    fn = "parse_os_release" =>
      LET lines == IF arg.text \in {"", "Unknown"} THEN <<>> ELSE OsLines(arg.text)
          supplied == {Lower(lines[i].key) :
                         i \in {j \in 1..Len(lines) : lines[j].eq /\ ~lines[j].hash}}
          sources(k) == IF k = "version_codename"
                          THEN {"version_codename", "ubuntu_codename"} ELSE {k}
      IN  /\ {"name", "version", "id"} \subseteq DOMAIN ret
          /\ \A k \in DOMAIN ret : ret[k] # "None"
          /\ \A k \in {"version_codename", "id_like", "home_url", "support_url",
                       "bug_report_url"} :
               k \in DOMAIN ret => sources(k) \cap supplied # {}

\* a text with lines lacking '=' and with some optional keys only has been
\* parsed: the optional keys it lacks are left out of the record
C19_Witness ==
    /\ fn = "parse_os_release"
    /\ arg.text = "os:ubuntu"
    /\ ret["id"] = "ubuntu-core"
    /\ ret["version"] = "Unknown"
    /\ "id_like" \in DOMAIN ret
    /\ "version_codename" \in DOMAIN ret
    /\ "home_url" \notin DOMAIN ret

C21_PortsNeverFail ==
    fn = "get_listening_ports" =>
      /\ ret.raised = "no"
      /\ Len(ret.ports) = Len(Take(SelectSeq(arg.text.lines, IsPortRow), PortCap))

\* C22: whatever the detail commands answer, parse_vm_list and
\* parse_container_list issue them for at most 20 guests of the list.
C22_DetailCapped ==
    fn = "parse_guests" =>
      LET asked == {i \in 1..Len(ret.items) :
                      \E k \in 1..Len(ret.cmds) :
                         ret.cmds[k].cmd =
                           "pvesh get " \o (IF arg.type = "vm" THEN "qemu/" ELSE "lxc/")
                             \o ret.items[i].vmid \o "/config"}
      IN  Cardinality(asked) <= max_detailed

\* C23: for one host, the cluster_status record of the JSON path and that
\* of the text path have the same keys, transport apart, and the same
\* clustered flag; a standalone host has clustered = FALSE on both.
C23_SameShape ==
    fn = "collect_cluster_info" =>
      /\ DOMAIN ret.json \ {"transport"} = DOMAIN ret.text \ {"transport"}
      /\ ret.json["clustered"] = ret.text["clustered"]
      /\ ~arg.host.clustered => ~ret.json["clustered"] /\ ~ret.text["clustered"]

\* C24: the commands of get_memory_modules are issued in the order lshw,
\* dmidecode, sudo lshw, /proc/meminfo, which probes, each at most once and
\* none without all the earlier ones; the chain is still running only while
\* no tool has given usable output; a tool's usable output (a text of more
\* than 10 characters without 'command not found', and for sudo lshw
\* without 'sudo:'; any such text of /proc/meminfo) is the result and no
\* later command has been issued; the which probes have been issued only
\* when the result is the error record.
C24_MemoryChain ==
    LET mem == SelectSeq(issued, LAMBDA c :
                   \E j \in 1..Len(MemCommands) : c.cmd = MemCommands[j])
        k == Len(mem)
    IN  /\ k <= Len(MemCommands)
        /\ \A i \in 1..k : mem[i].cmd = MemCommands[i]
        /\ pc = "memory" => k = step - 1 /\ ~Has(info, "memory_modules")
        /\ Has(info, "memory_modules") =>
             LET m == info["memory_modules"]
             IN  IF Has(m, "source") /\ m["source"] = "error"
                   THEN k = Len(MemCommands)
                   ELSE /\ k <= 4
                        /\ mem[k].got
                        /\ \E r \in (CASE k \in {1, 2} -> {"sudo", "out"}
                                        [] k = 3 -> {"out"}
                                        [] k = 4 -> {"cnf", "sudo", "out"}) :
                              m = MemoryOf(k, r)
        /\ k > 4 => /\ \A i \in 1..3 : mem[i].cmd = MemCommands[i]
                    /\ (Has(info, "memory_modules")
                          => info["memory_modules"]["source"] = "error")

\* lshw printed something unusable, dmidecode and sudo lshw nothing usable,
\* and /proc/meminfo ended the chain
C24_Witness ==
    LET mem == SelectSeq(issued, LAMBDA c :
                   \E j \in 1..Len(MemCommands) : c.cmd = MemCommands[j])
    IN  /\ Len(mem) = 4
        /\ mem[1].got
        /\ Has(info, "memory_modules")
        /\ Has(info["memory_modules"], "source")
        /\ info["memory_modules"]["source"] = "meminfo"
        /\ pc = "done"

\* C25: a lookup returns the entry of the exact name if the catalog has it,
\* else the first entry whose key is a prefix, a suffix or a part of the
\* name, and adds no key in either case; else (no catalog entry of these
\* runs has a binary path) it adds exactly one key, the name, with an
\* auto-generated entry.
C25_ResolutionOrder ==
    fn = "lookup_twice" =>
      LET db0 == load_services_database(arg.file)
          g == ret.after_first
      IN  /\ g.raised = "no"
          /\ IF arg.name \in Names(db0)
               THEN g.entry.name = arg.name /\ Names(g.db) = Names(db0)
             ELSE IF PartialMatches(db0, arg.name) # {}
               THEN /\ g.entry.name = db0[FirstPartial(db0, arg.name)].name
                    /\ Names(g.db) = Names(db0)
             ELSE /\ Names(g.db) = Names(db0) \cup {arg.name}
                  /\ Len(g.db) = Len(db0) + 1
                  /\ g.entry.name = arg.name /\ g.entry.auto

(***************************************************************************)
(* C26: NAS type detection is idempotent and cached.  After the first call *)
(* that detects on a collector, no later call sends a probe command and    *)
(* every detect_nas_type call returns what the first returned; on a host   *)
(* where no probe matches every such result is None; and no call changes   *)
(* the host's platform tag.                                                *)
(***************************************************************************)
ProbeCommands == {Probes[i] : i \in 1..Len(Probes)} \cup {PsTruenas}

DetectCalls == {i \in 1..Len(ret.calls) : ret.calls[i].call = "detect_nas_type"}

C26_DetectionCached ==
    /\ [](fn \in {"detect_nas_type", "collect_nas_info"} =>
            /\ \A i \in 2..Len(ret.calls) : \A j \in 1..Len(ret.calls[i].cmds) :
                   ret.calls[i].cmds[j] \notin ProbeCommands
            /\ \A i \in DetectCalls : \A j \in DetectCalls :
                   ret.calls[i].value = ret.calls[j].value
            /\ arg.markers \subseteq {PsTruenas} =>
                   \A i \in DetectCalls : ret.calls[i].value = "None")
    /\ [][fn' \in {"detect_nas_type", "collect_nas_info"} => info' = info]_vars

C26_Witness ==
    /\ Len(ret.calls) = 3
    /\ DetectCalls = {1, 2, 3}
    /\ arg.markers = {PsTruenas}
    /\ Len(ret.calls[1].cmds) = Len(Probes)
    /\ ret.calls[3].value = "None"
    /\ ret.calls[3].cmds = <<>>
    /\ info.platform_type = "linux"

\* C30: collect_nas_info never raises, whatever the commands print: on a
\* host whose type is detected it returns the dict with every sub-record,
\* with at most DiskCap disks, and on any other host the empty dict.
C30_CollectNeverRaises ==
    \A i \in 1..Len(ret.calls) :
        ret.calls[i].call = "collect_nas_info" =>
          /\ ret.calls[i].raised = "no"
          /\ IF ret.nas_type = "unknown"
               THEN DOMAIN ret.calls[i].value = {}
               ELSE /\ ret.calls[i].value.nas_type = ret.nas_type
                    /\ Len(ret.calls[i].value.disk_health) <= DiskCap

\* C27: once every worker has finished and finalized its catalog,
\* services.json lists every service name a worker registered in the run.
C27_NoLostEntry ==
    (\A i \in DOMAIN worker : worker[i].pc \in {"done", "raised"}) =>
        \A i \in DOMAIN worker :
            worker[i].added => Names(worker[i].db) \subseteq Names(services_file.db)

\* C28: when collect_all_data has returned, every host whose worker
\* returned a record has that record in the inventory under its own key,
\* the reported hostname of a reachable host or else the address given.
C28_OwnEntry ==
    opc = "done" =>
        \A i \in Tasks :
            worker[i].pc = "done" =>
                /\ Has(inventory, BestKey(worker[i].info, hosts[i]))
                /\ inventory[BestKey(worker[i].info, hosts[i])] = worker[i].info

\* C29: when a host's collection has ended, by a returned record or by an
\* exception of a collector step, the channel a successful connect()
\* opened has been closed.
C29_ChannelClosed ==
    pc \in {"done", "raised"} => ssh_client # "open"

====
